---- MODULE Spec2Model ----
(***************************************************************************)
(* Extract2MDConverter (src/Extract2MD/src/extract2md.d.ts): the           *)
(* orchestration of one converter instance.  Every entry point is an       *)
(* async function; a call is a process whose position (pc) advances from   *)
(* one await to the next.  The code between two awaits runs atomically     *)
(* (single-threaded event loop), and calls on the same instance may be     *)
(* started while earlier ones are still awaiting.  The external engines    *)
(* (pdf.js, Tesseract, WebLLM) answer each await with success or failure.  *)
(*                                                                         *)
(* The text of a page is abstracted to the page's number; the value a     *)
(* conversion returns is the sequence of pages it accumulated.             *)
(*                                                                         *)
(* The text functions (_postProcessText, the clean-up of the conversions,  *)
(* _convertToMarkdownLogic) are modelled separately, on texts that are     *)
(* sequences of characters: specification SpecText runs them on inputs     *)
(* drawn from bounded sets, one rule and one input line per step.  Under   *)
(* specification Spec the text machine rests.                              *)
(***************************************************************************)
EXTENDS Integers, Sequences, FiniteSets, TLC

\* ------------------------------------------------------------------ bounds
MaxCalls == 2
MaxPages == 2
MaxLoadReports == 1
MaxLines == 3
MaxTextLen == 3
MaxCallerRules == 1
MaxItems == 2

\* --------------------------------------------------------------- constants
ShortLineLimit == 80
AllCapsMinLength == 2
HeadingMinLength == 1
MinColumnParts == 2
MinColumnsLineLength == 10
MinFencedLines == 2
GapThreshold == -2
LongLineFeedRun == 3
MinLineFeedRun == 2
DEFAULT_LLM_MODEL == "Qwen3-0.6B-q4f16_1-MLC"
OtherModel == "Llama-3-8B-Instruct-q4f16_1-MLC"
Models == {DEFAULT_LLM_MODEL, OtherModel}

Calls == 1..MaxCalls
NoHandle == 0

VARIABLES
    \* instance fields
    caps,             \* which WebLLM entry point the constructor found
    llmModelLibUrl,   \* TRUE when the constructor was given a model_lib URL
    chatModule,       \* this.chatModule: NoHandle (null) or an engine handle
    llmInitialized,   \* this.llmInitialized
    \* the external engines
    engModel,         \* engModel[h]: the modelId stored on engine handle h
    liveLLM,          \* generative-engine handles created and not unloaded
    ocrCreated,       \* number of OCR workers created so far
    liveOCR,          \* OCR workers created and not terminated
    \* the calls
    kind,             \* "none" | "quick" | "ocr" | "rewrite" | "unload"
    pc,               \* the await the call is suspended at, or its outcome
    numPages, pageNum, acc,   \* locals of the two conversions
    worker,           \* highAccuracyConvert's local `worker`
    reqModel,         \* llmRewrite's `model`
    oldEngine,        \* the handle whose unload() the call awaits
    newEngine,        \* the handle the call constructed / was given
    loadReports,      \* initProgressCallback invocations received
    result,           \* {} or {value}: what the caller received
    log,              \* per call: progress reports, engine calls, outcome
    \* history of the call's start, for the claims
    startEngine, startInit, overlapped

VARIABLES
    \* the text machine: which function was entered, and where it stands
    entry,            \* "none" | "_postProcessText" | "_convertToMarkdownLogic" |
                      \* "quickConvert" | "highAccuracyConvert" |
                      \* "_extractTextWithPdfJs" | "llmRewrite"
    tpc,              \* position in the text functions
    \* _postProcessText
    splitPascalCase,  \* constructor option
    customPostProcessRules,   \* constructor option postProcessRules
    additionalRules,  \* the call's options.postProcessRules
    text,             \* the argument `text`
    rules,            \* the local `rules` (line 157)
    ruleIdx,          \* how many rules the for-of loop has gone through
    cleanedText,      \* the local `cleanedText`
    applied,          \* history: origin of each rule visited, in order
    \* _convertToMarkdownLogic
    rawText, inputLines,
    loopI,            \* the loop's `i` (lines are numbered from 1 here)
    markdownOutputLines, currentParagraphCollector,
    inPotentialTableBlock, potentialTableBlockLines,
    finalMarkdown,
    \* history of _convertToMarkdownLogic, for the claims
    blocks,           \* the blocks pushed so far: kind, source lines, content
    paraSrc, tableSrc,   \* input-line numbers held by the two collectors
    skipped,          \* input lines the loop stepped over (line 218)
    \* _extractTextWithPdfJs, its text part (lines 263-283)
    textContents,     \* per page: textContent.items as the engine returned them
    pageNo,           \* the loop's `pageNum`
    itemI,            \* the inner loop's `i` (items are numbered from 1 here)
    pageTextBuffer, fullText,
    seps,             \* history: what was appended after each item of the page
    pageTexts,        \* history: what each page added to fullText
    \* llmRewrite, its prompt (lines 464 and 474)
    ctorPromptTemplate,   \* the constructor's option llmPromptTemplate
    callPromptTemplate,   \* the call's options.llmPromptTemplate
    promptTemplate,   \* the local `promptTemplate`
    prompt            \* the local `prompt`

VARIABLES
    \* the demo page (src/components/PdfConverterClient.tsx)
    pdfFile,          \* TRUE when a file is selected (state `pdfFile` is not null)
    converterInitialized,
    isProcessing,
    markdownOutput,
    highAccuracyText, \* handleProcessPdf's local
    hpc,              \* the await handleProcessPdf is suspended at, or "idle"
    alerted,          \* the last alert() the page raised
    runs,             \* runs of handleProcessPdf that got past its guards
    hlog              \* history of the current run: calls made, blocks entered

VARIABLES
    \* the postinstall script (src/Extract2MD/scripts/postinstall.js)
    disk,             \* what each path under langDataPath holds
    mpc,              \* the await main() is suspended at, or "idle"
    fileIdx,          \* the for-of loop's position in filesToDownload
    redirectCount,    \* downloadFile's parameter, in the innermost call
    requests,         \* https.get calls made for the file being downloaded
    received,         \* history: the responses to those requests
    outcome,          \* how the last downloadFile settled, or "pending"
    installRuns,      \* runs of the script started so far
    skips,            \* history of the run: <<file, content>> for each skip
    exit              \* how the last run ended

normVars  == <<splitPascalCase, customPostProcessRules, additionalRules, text, rules,
               ruleIdx, cleanedText, applied>>
reconVars == <<rawText, inputLines, loopI, markdownOutputLines, currentParagraphCollector,
               inPotentialTableBlock, potentialTableBlockLines, finalMarkdown,
               blocks, paraSrc, tableSrc, skipped>>
extractVars == <<textContents, pageNo, itemI, pageTextBuffer, fullText, seps, pageTexts>>
promptVars == <<ctorPromptTemplate, callPromptTemplate, promptTemplate, prompt>>
auxVars   == <<extractVars, promptVars>>
libTextVars == <<entry, tpc, normVars, reconVars, auxVars>>
uiVars    == <<pdfFile, converterInitialized, isProcessing, markdownOutput,
               highAccuracyText, hpc, alerted, runs, hlog>>
installVars == <<disk, mpc, fileIdx, redirectCount, requests, received, outcome,
                 installRuns, skips, exit>>
appVars   == <<uiVars, installVars>>
textVars  == <<libTextVars, appVars>>

instVars == <<caps, llmModelLibUrl, chatModule, llmInitialized>>
extVars  == <<engModel, liveLLM, ocrCreated, liveOCR>>
convVars == <<numPages, pageNum, acc, worker>>
llmVars  == <<reqModel, oldEngine, newEngine, loadReports>>
histVars == <<startEngine, startInit, overlapped>>
orchVars == <<instVars, extVars, kind, pc, convVars, llmVars, result, log, histVars>>
vars == <<orchVars, textVars>>

\* a call without a prompt template
NoTemplate == [kind |-> "none", prefix |-> <<>>, suffix |-> <<>>]
\* _extractTextWithPdfJs has not been entered
ExtractIdle ==
    /\ textContents = <<>> /\ pageNo = 0 /\ itemI = 0
    /\ pageTextBuffer = <<>> /\ fullText = <<>> /\ seps = <<>> /\ pageTexts = <<>>
\* llmRewrite has not been entered
PromptIdle ==
    /\ ctorPromptTemplate = NoTemplate /\ callPromptTemplate = NoTemplate
    /\ promptTemplate = NoTemplate /\ prompt = <<>>

\* what the page shows: nothing yet, a text, or the error message
NoOutput == [shown |-> "text", value |-> <<>>]
\* the page has been mounted and nothing has been clicked
UiIdle ==
    /\ pdfFile = FALSE /\ converterInitialized = FALSE /\ isProcessing = FALSE
    /\ markdownOutput = NoOutput /\ highAccuracyText = <<>>
    /\ hpc = "idle" /\ alerted = "none" /\ runs = 0 /\ hlog = <<>>
\* lines 13-26 of scripts/postinstall.js
filesToDownload ==
    << [fileName |-> "eng.traineddata.gz", destFileName |-> "eng.traineddata.gz",
        gzipped |-> TRUE],
       [fileName |-> "sin.traineddata", destFileName |-> "sin.traineddata.gz",
        gzipped |-> FALSE] >>
\* path.join(langDataPath, name): a path is the list of the parts of its name
FilePath(name) == <<name>>
\* line 50: the name downloadFile writes to before renaming
TempFilePath(name) == <<"_", name>>
\* line 114: the output of an in-place decompression (one name per
\* destination stands for the time-stamped names)
TempOutputPath(destPath) == destPath \o <<".tmp_decompress">>
Paths ==
    UNION { {FilePath(filesToDownload[k].fileName),
             FilePath(filesToDownload[k].destFileName),
             TempFilePath(filesToDownload[k].fileName),
             TempOutputPath(FilePath(filesToDownload[k].destFileName))} :
            k \in DOMAIN filesToDownload }
\* the script has never run: the directory is empty
InstallIdle ==
    /\ disk = [p \in Paths |-> "absent"]
    /\ mpc = "idle" /\ fileIdx = 0
    /\ redirectCount = 0 /\ requests = 0 /\ received = <<>> /\ outcome = "none"
    /\ installRuns = 0 /\ skips = {} /\ exit = "none"
\* the library is used directly, without the page or the script
AppIdle == UiIdle /\ InstallIdle

\* no text function has been entered
TextIdle ==
    /\ entry = "none" /\ tpc = "idle"
    /\ splitPascalCase = FALSE
    /\ customPostProcessRules = <<>> /\ additionalRules = <<>>
    /\ text = <<>> /\ rules = <<>> /\ ruleIdx = 0 /\ cleanedText = <<>>
    /\ applied = <<>>
    /\ rawText = <<>> /\ inputLines = <<>> /\ loopI = 0
    /\ markdownOutputLines = <<>> /\ currentParagraphCollector = <<>>
    /\ inPotentialTableBlock = FALSE /\ potentialTableBlockLines = <<>>
    /\ finalMarkdown = <<>>
    /\ blocks = <<>> /\ paraSrc = <<>> /\ tableSrc = <<>> /\ skipped = {}
    /\ ExtractIdle /\ PromptIdle

\* ------------------------------------------------------------------ events
Report(stage, page, total, err) ==
    [ev |-> "report", name |-> stage, currentPage |-> page, totalPages |-> total, error |-> err]
Stage(stage) == Report(stage, 0, 0, FALSE)
ErrorReport(stage) == Report(stage, 0, 0, TRUE)
PageReport(stage, page, total) == Report(stage, page, total, FALSE)
ExtCall(op) == [ev |-> "call", name |-> op, currentPage |-> 0, totalPages |-> 0, error |-> FALSE]
ExtDone(op) == [ev |-> "done", name |-> op, currentPage |-> 0, totalPages |-> 0, error |-> FALSE]
Throw(msg)  == [ev |-> "throw", name |-> msg, currentPage |-> 0, totalPages |-> 0, error |-> TRUE]
Return      == [ev |-> "return", name |-> "", currentPage |-> 0, totalPages |-> 0, error |-> FALSE]

Emit(c, events) == log' = [log EXCEPT ![c] = @ \o events]

Done == {"resolved", "rejected"}
InFlight == {d \in Calls : kind[d] # "none" /\ pc[d] \notin Done}

\* the abstract reply text of the generative engine
Reply == <<0>>

\* ------------------------------------------------------------------- Init
\* (mutation of ModelLibResolvable: the check for a model_lib dropped)
ModelLibResolvable_Always(m) == TRUE

\* lines 398-411: a model_lib can be resolved for model m
ModelLibResolvable(m) == llmModelLibUrl \/ m = DEFAULT_LLM_MODEL

\* The instance is fresh (constructor, lines 117-151), or an earlier llmRewrite
\* that has completed left its engine Ready for a model it could load.
OrchInit ==
    /\ caps \in {"engine", "chat", "none"}
    /\ llmModelLibUrl \in BOOLEAN
    /\ \/ /\ chatModule = NoHandle
          /\ llmInitialized = FALSE
          /\ engModel = <<>>
          /\ liveLLM = {}
       \/ \E m \in Models :
             /\ caps = "chat" \/ (caps = "engine" /\ ModelLibResolvable(m))
             /\ chatModule = 1
             /\ llmInitialized = TRUE
             /\ engModel = <<m>>
             /\ liveLLM = {1}
    /\ ocrCreated = 0
    /\ liveOCR = {}
    /\ kind = [c \in Calls |-> "none"]
    /\ pc = [c \in Calls |-> "idle"]
    /\ numPages = [c \in Calls |-> 0]
    /\ pageNum = [c \in Calls |-> 0]
    /\ acc = [c \in Calls |-> <<>>]
    /\ worker = [c \in Calls |-> NoHandle]
    /\ reqModel = [c \in Calls |-> DEFAULT_LLM_MODEL]
    /\ oldEngine = [c \in Calls |-> NoHandle]
    /\ newEngine = [c \in Calls |-> NoHandle]
    /\ loadReports = [c \in Calls |-> 0]
    /\ result = [c \in Calls |-> {}]
    /\ log = [c \in Calls |-> <<>>]
    /\ startEngine = [c \in Calls |-> NoHandle]
    /\ startInit = [c \in Calls |-> FALSE]
    /\ overlapped = [c \in Calls |-> FALSE]

Init == OrchInit /\ TextIdle /\ AppIdle

\* A caller starts call c: slots are used in order, one call each.
CanStart(c) ==
    /\ kind[c] = "none"
    /\ \A d \in Calls : d < c => kind[d] # "none"

Begin(c, k) ==
    /\ CanStart(c)
    /\ kind' = [kind EXCEPT ![c] = k]
    /\ startEngine' = [startEngine EXCEPT ![c] = chatModule]
    /\ startInit' = [startInit EXCEPT ![c] = llmInitialized]
    /\ overlapped' = [d \in Calls |->
                        IF d = c THEN InFlight # {}
                        ELSE overlapped[d] \/ d \in InFlight]

Goto(c, p) == pc' = [pc EXCEPT ![c] = p]
\* --------------------------------------------------------- quickConvert
\* lines 289-292: validation, the start report, await pdfFile.arrayBuffer()
QuickStart(c) ==
    /\ Begin(c, "quick")
    /\ \E isFile \in BOOLEAN :
         IF isFile
         THEN /\ Goto(c, "q_buffer")
              /\ Emit(c, <<Stage("start_quick"), ExtCall("arrayBuffer")>>)
         ELSE /\ Goto(c, "rejected")
              /\ Emit(c, <<Throw("invalid_input")>>)
    /\ UNCHANGED <<textVars, instVars, extVars, convVars, llmVars, result>>

\* lines 293, 246-252: _extractTextWithPdfJs up to await getDocument
QuickBuffer(c) ==
    /\ kind[c] = "quick" /\ pc[c] = "q_buffer"
    /\ Goto(c, "q_open")
    /\ Emit(c, <<Stage("pdfjs_load"), ExtCall("getDocument")>>)
    /\ UNCHANGED <<textVars, instVars, extVars, kind, convVars, llmVars, result, histVars>>

\* lines 253-258: the document is open; first page's report, await getPage
QuickOpen(c) ==
    /\ kind[c] = "quick" /\ pc[c] = "q_open"
    /\ \E n \in 1..MaxPages :
         /\ numPages' = [numPages EXCEPT ![c] = n]
         /\ Emit(c, <<PageReport("pdfjs_page", 1, n), ExtCall("getPage")>>)
    /\ pageNum' = [pageNum EXCEPT ![c] = 1]
    /\ Goto(c, "q_page")
    /\ UNCHANGED <<textVars, instVars, extVars, kind, acc, worker, llmVars, result, histVars>>

\* line 259: await page.getTextContent
QuickGetPage(c) ==
    /\ kind[c] = "quick" /\ pc[c] = "q_page"
    /\ Goto(c, "q_text")
    /\ Emit(c, <<ExtCall("getTextContent")>>)
    /\ UNCHANGED <<textVars, instVars, extVars, kind, convVars, llmVars, result, histVars>>

\* lines 263-286: the page's text is appended; next page or end of the loop
QuickText(c) ==
    /\ kind[c] = "quick" /\ pc[c] = "q_text"
    /\ acc' = [acc EXCEPT ![c] = Append(@, pageNum[c])]
    /\ IF pageNum[c] < numPages[c]
       THEN /\ pageNum' = [pageNum EXCEPT ![c] = @ + 1]
            /\ Goto(c, "q_page")
            /\ Emit(c, <<PageReport("pdfjs_page", pageNum[c] + 1, numPages[c]),
                         ExtCall("getPage")>>)
       ELSE /\ UNCHANGED pageNum
            /\ Goto(c, "q_extracted")
            /\ Emit(c, <<Stage("pdfjs_extract_complete")>>)
    /\ UNCHANGED <<textVars, instVars, extVars, kind, numPages, worker, llmVars, result, histVars>>

\* lines 295-302: post-processing, Markdown conversion, the result
QuickFinish(c) ==
    /\ kind[c] = "quick" /\ pc[c] = "q_extracted"
    /\ Goto(c, "resolved")
    /\ result' = [result EXCEPT ![c] = {acc[c]}]
    /\ Emit(c, <<Stage("postprocess_quick"), Stage("markdown_quick"),
                 Stage("complete_quick"), Return>>)
    /\ UNCHANGED <<textVars, instVars, extVars, kind, convVars, llmVars, histVars>>

\* ---------------------------------------------------- highAccuracyConvert
\* (mutation of OcrStart: the start report comes before the validation)
OcrStart_ReportsFirst(c) ==
    /\ Begin(c, "ocr")
    /\ \E isFile \in BOOLEAN :
         IF isFile
         THEN /\ Goto(c, "o_worker")
              /\ Emit(c, <<Stage("start_ocr"), Stage("ocr_worker_init"),
                           ExtCall("createWorker")>>)
         ELSE /\ Goto(c, "rejected")
              /\ Emit(c, <<Stage("start_ocr"), Throw("invalid_input")>>)
    /\ UNCHANGED <<textVars, instVars, extVars, convVars, llmVars, result>>

\* lines 305-321: validation, the start reports, await Tess.createWorker
OcrCall(c, isFile) ==
    /\ IF isFile
       THEN /\ Goto(c, "o_worker")
            /\ Emit(c, <<Stage("start_ocr"), Stage("ocr_worker_init"),
                         ExtCall("createWorker")>>)
       ELSE /\ Goto(c, "rejected")
            /\ Emit(c, <<Throw("invalid_input")>>)
    /\ UNCHANGED <<instVars, extVars, convVars, llmVars, result>>

\* highAccuracyConvert called by a caller that passes any payload
OcrStart(c) ==
    /\ Begin(c, "ocr")
    /\ \E isFile \in BOOLEAN : OcrCall(c, isFile)
    /\ UNCHANGED textVars

\* lines 321, 327: the worker exists; await pdfFile.arrayBuffer()
OcrWorkerCreated(c) ==
    /\ kind[c] = "ocr" /\ pc[c] = "o_worker"
    /\ ocrCreated' = ocrCreated + 1
    /\ worker' = [worker EXCEPT ![c] = ocrCreated + 1]
    /\ liveOCR' = liveOCR \cup {ocrCreated + 1}
    /\ Goto(c, "o_buffer")
    /\ Emit(c, <<ExtDone("createWorker"), ExtCall("arrayBuffer")>>)
    /\ UNCHANGED <<textVars, instVars, engModel, liveLLM, kind, numPages, pageNum, acc,
                   llmVars, result, histVars>>

\* (mutation of OcrWorkerFailed: the catch reports but does not re-throw)
OcrWorkerFailed_NoRethrow(c) ==
    /\ kind[c] = "ocr" /\ pc[c] = "o_worker"
    /\ Goto(c, "o_buffer")
    /\ Emit(c, <<ErrorReport("ocr_worker_error"), ExtCall("arrayBuffer")>>)
    /\ UNCHANGED <<textVars, instVars, extVars, kind, convVars, llmVars, result, histVars>>

\* lines 322-325: createWorker rejected; report with the error, re-throw
OcrWorkerFailed(c) ==
    /\ kind[c] = "ocr" /\ pc[c] = "o_worker"
    /\ Goto(c, "rejected")
    /\ Emit(c, <<ErrorReport("ocr_worker_error"), Throw("worker_init_failed")>>)
    /\ UNCHANGED <<textVars, instVars, extVars, kind, convVars, llmVars, result, histVars>>

\* line 328: await getDocument
OcrBuffer(c) ==
    /\ kind[c] = "ocr" /\ pc[c] = "o_buffer"
    /\ Goto(c, "o_open")
    /\ Emit(c, <<ExtCall("getDocument")>>)
    /\ UNCHANGED <<textVars, instVars, extVars, kind, convVars, llmVars, result, histVars>>

\* lines 329-334: the document is open; first page's report, await getPage
OcrOpen(c) ==
    /\ kind[c] = "ocr" /\ pc[c] = "o_open"
    /\ \E n \in 1..MaxPages :
         /\ numPages' = [numPages EXCEPT ![c] = n]
         /\ Emit(c, <<PageReport("ocr_render_page", 1, n), ExtCall("getPage")>>)
    /\ pageNum' = [pageNum EXCEPT ![c] = 1]
    /\ Goto(c, "o_page")
    /\ UNCHANGED <<textVars, instVars, extVars, kind, acc, worker, llmVars, result, histVars>>

\* lines 335-342: await page.render
OcrGetPage(c) ==
    /\ kind[c] = "ocr" /\ pc[c] = "o_page"
    /\ Goto(c, "o_render")
    /\ Emit(c, <<ExtCall("render")>>)
    /\ UNCHANGED <<textVars, instVars, extVars, kind, convVars, llmVars, result, histVars>>

\* lines 344-345: the recognition report, await worker.recognize
OcrRendered(c) ==
    /\ kind[c] = "ocr" /\ pc[c] = "o_render"
    /\ Goto(c, "o_recognize")
    /\ Emit(c, <<PageReport("ocr_recognize_page", pageNum[c], numPages[c]),
                 ExtCall("recognize")>>)
    /\ UNCHANGED <<textVars, instVars, extVars, kind, convVars, llmVars, result, histVars>>

\* (mutation of OcrRecognized: the loop's next report repeats the page just
\* recognized instead of announcing the next one)
OcrRecognized_RepeatsPage(c) ==
    /\ kind[c] = "ocr" /\ pc[c] = "o_recognize"
    /\ acc' = [acc EXCEPT ![c] = Append(@, pageNum[c])]
    /\ IF pageNum[c] < numPages[c]
       THEN /\ pageNum' = [pageNum EXCEPT ![c] = @ + 1]
            /\ Goto(c, "o_page")
            /\ Emit(c, <<PageReport("ocr_render_page", pageNum[c], numPages[c]),
                         ExtCall("getPage")>>)
       ELSE /\ UNCHANGED pageNum
            /\ Goto(c, "o_terminate")
            /\ Emit(c, <<Stage("ocr_terminate_worker"), ExtCall("terminate")>>)
    /\ UNCHANGED <<textVars, instVars, extVars, kind, numPages, worker, llmVars, result, histVars>>

\* lines 346-352: the page's text is appended; next page, or the worker's
\* termination after the last page
OcrRecognized(c) ==
    /\ kind[c] = "ocr" /\ pc[c] = "o_recognize"
    /\ acc' = [acc EXCEPT ![c] = Append(@, pageNum[c])]
    /\ IF pageNum[c] < numPages[c]
       THEN /\ pageNum' = [pageNum EXCEPT ![c] = @ + 1]
            /\ Goto(c, "o_page")
            /\ Emit(c, <<PageReport("ocr_render_page", pageNum[c] + 1, numPages[c]),
                         ExtCall("getPage")>>)
       ELSE /\ UNCHANGED pageNum
            /\ Goto(c, "o_terminate")
            /\ Emit(c, <<Stage("ocr_terminate_worker"), ExtCall("terminate")>>)
    /\ UNCHANGED <<textVars, instVars, extVars, kind, numPages, worker, llmVars, result, histVars>>

\* (mutation of OcrTerminated: the text is post-processed while the worker
\* is still alive, which is never terminated)
OcrTerminated_KeepsWorker(c) ==
    /\ kind[c] = "ocr" /\ pc[c] = "o_terminate"
    /\ Goto(c, "resolved")
    /\ result' = [result EXCEPT ![c] = {acc[c]}]
    /\ Emit(c, <<ExtDone("terminate"), Stage("postprocess_ocr"), Stage("markdown_ocr"),
                 Stage("complete_ocr"), Return>>)
    /\ UNCHANGED <<textVars, instVars, extVars, kind, convVars, llmVars, histVars>>

\* lines 352-361: the worker is terminated; post-processing, Markdown, result
OcrTerminated(c) ==
    /\ kind[c] = "ocr" /\ pc[c] = "o_terminate"
    /\ liveOCR' = liveOCR \ {worker[c]}
    /\ Goto(c, "resolved")
    /\ result' = [result EXCEPT ![c] = {acc[c]}]
    /\ Emit(c, <<ExtDone("terminate"), Stage("postprocess_ocr"), Stage("markdown_ocr"),
                 Stage("complete_ocr"), Return>>)
    /\ UNCHANGED <<textVars, instVars, engModel, liveLLM, ocrCreated, kind, convVars, llmVars,
                   histVars>>

\* The awaits of the two conversions that no try/catch encloses (lines 292,
\* 252, 258, 259 and 327, 328, 334, 342, 345): a rejection of the awaited
\* promise leaves the async function at once.
UncaughtAwaits ==
    {"q_buffer", "q_open", "q_page", "q_text",
     "o_buffer", "o_open", "o_page", "o_render", "o_recognize"}

\* (mutation of UncaughtReject: the failure is swallowed and what was
\* accumulated so far is returned)
UncaughtReject_ReturnsPartial(c) ==
    /\ pc[c] \in UncaughtAwaits
    /\ Goto(c, "resolved")
    /\ result' = [result EXCEPT ![c] = {acc[c]}]
    /\ Emit(c, <<Return>>)
    /\ UNCHANGED <<textVars, instVars, extVars, kind, convVars, llmVars, histVars>>

UncaughtReject(c) ==
    /\ pc[c] \in UncaughtAwaits
    /\ Goto(c, "rejected")
    /\ Emit(c, <<Throw("engine_failure")>>)
    /\ UNCHANGED <<textVars, instVars, extVars, kind, convVars, llmVars, result, histVars>>

\* ------------------------------------------------------------ llmRewrite
\* line 371: the modelId stored on the current handle, if any
CurrentModelId == IF chatModule # NoHandle THEN engModel[chatModule] ELSE ""

\* (mutation of AlreadyReady: the model comparison inverted)
AlreadyReady_WrongCompare(m) ==
    llmInitialized /\ chatModule # NoHandle /\ CurrentModelId # m

\* line 372: already initialized with the requested model
AlreadyReady(m) ==
    llmInitialized /\ chatModule # NoHandle /\ CurrentModelId = m

\* lines 383-451, run without suspension once no old engine is held:
\* llmInitialized is cleared, then either CreateMLCEngine is awaited, or the
\* configuration error is thrown inside the try and handled by the catch
\* (lines 455-459), or (Chat fallback) a Chat is constructed, stored, and its
\* reload awaited.  `pre` are the events of the same step that came before,
\* `live` the live engine handles and `cm` this.chatModule at this point.
TryInit(c, m, pre, live, cm) ==
    /\ llmInitialized' = FALSE
    /\ IF caps = "engine"
       THEN /\ chatModule' = cm
            /\ liveLLM' = live
            /\ UNCHANGED <<engModel, newEngine>>
            /\ IF ModelLibResolvable(m)
               THEN /\ Goto(c, "r_create")
                    /\ Emit(c, pre \o <<ExtCall("CreateMLCEngine")>>)
               ELSE /\ Goto(c, "rejected")
                    /\ Emit(c, pre \o <<ErrorReport("llm_init_error"),
                                        Throw("llm_init_failed")>>)
       ELSE /\ chatModule' = Len(engModel) + 1
            /\ engModel' = Append(engModel, m)
            /\ liveLLM' = live \cup {Len(engModel) + 1}
            /\ newEngine' = [newEngine EXCEPT ![c] = Len(engModel) + 1]
            /\ Goto(c, "r_reload")
            /\ Emit(c, pre \o <<ExtCall("reload")>>)

\* (mutation of MustUnloadFirst: the old engine is never unloaded)
MustUnloadFirst_Skipped == FALSE

\* line 379: an engine is held (and has an unload function)
MustUnloadFirst == chatModule # NoHandle

\* lines 462-469 and 364-383: llmRewrite up to the first await of
\* _initializeLLM
RewriteCall(c, m) ==
    /\ reqModel' = [reqModel EXCEPT ![c] = m]
    /\ IF caps = "none"
       THEN /\ Goto(c, "rejected")
            /\ Emit(c, <<Throw("webllm_not_loaded")>>)
            /\ UNCHANGED <<chatModule, llmInitialized, engModel, liveLLM,
                           oldEngine, newEngine>>
       ELSE IF AlreadyReady(m)
       THEN /\ Goto(c, "r_inited")
            /\ Emit(c, <<Stage("llm_ready")>>)
            /\ UNCHANGED <<chatModule, llmInitialized, engModel, liveLLM,
                           oldEngine, newEngine>>
       ELSE IF MustUnloadFirst
       THEN /\ Goto(c, "r_unload")
            /\ oldEngine' = [oldEngine EXCEPT ![c] = chatModule]
            /\ Emit(c, <<Stage("llm_init"), ExtCall("unload")>>)
            /\ UNCHANGED <<chatModule, llmInitialized, engModel, liveLLM,
                           newEngine>>
       ELSE /\ TryInit(c, m, <<Stage("llm_init")>>, liveLLM, chatModule)
            /\ UNCHANGED oldEngine
    /\ UNCHANGED <<caps, llmModelLibUrl, ocrCreated, liveOCR, convVars,
                   loadReports, result>>

\* llmRewrite called by a caller that asks for any model
RewriteStart(c) ==
    /\ Begin(c, "rewrite")
    /\ \E m \in Models : RewriteCall(c, m)
    /\ UNCHANGED textVars

\* (mutation of RewriteUnloaded: the old engine stays loaded and referenced)
RewriteUnloaded_KeepsEngine(c) ==
    /\ kind[c] = "rewrite" /\ pc[c] = "r_unload"
    /\ TryInit(c, reqModel[c], <<ExtDone("unload")>>, liveLLM, chatModule)
    /\ UNCHANGED <<textVars, caps, llmModelLibUrl, ocrCreated, liveOCR, kind, convVars,
                   reqModel, oldEngine, loadReports, result, histVars>>

\* lines 380-383 and on: the old engine is unloaded, the field is cleared
RewriteUnloaded(c) ==
    /\ kind[c] = "rewrite" /\ pc[c] = "r_unload"
    /\ TryInit(c, reqModel[c], <<ExtDone("unload")>>, liveLLM \ {oldEngine[c]}, NoHandle)
    /\ UNCHANGED <<textVars, caps, llmModelLibUrl, ocrCreated, liveOCR, kind, convVars,
                   reqModel, oldEngine, loadReports, result, histVars>>

\* lines 386-392: the engine reports loading progress while it initializes
LlmLoadProgress(c) ==
    /\ kind[c] = "rewrite" /\ pc[c] \in {"r_create", "r_reload"}
    /\ loadReports[c] < MaxLoadReports
    /\ loadReports' = [loadReports EXCEPT ![c] = @ + 1]
    /\ Emit(c, <<Stage("llm_load_progress")>>)
    /\ UNCHANGED <<textVars, instVars, extVars, kind, pc, convVars, reqModel, oldEngine,
                   newEngine, result, histVars>>

\* lines 432-435, 453-454: CreateMLCEngine resolved with a new engine
RewriteCreated(c) ==
    /\ kind[c] = "rewrite" /\ pc[c] = "r_create"
    /\ engModel' = Append(engModel, reqModel[c])
    /\ liveLLM' = liveLLM \cup {Len(engModel) + 1}
    /\ chatModule' = Len(engModel) + 1
    /\ newEngine' = [newEngine EXCEPT ![c] = Len(engModel) + 1]
    /\ llmInitialized' = TRUE
    /\ Goto(c, "r_inited")
    /\ Emit(c, <<ExtDone("CreateMLCEngine"), Stage("llm_init_complete")>>)
    /\ UNCHANGED <<textVars, caps, llmModelLibUrl, ocrCreated, liveOCR, kind, convVars,
                   reqModel, oldEngine, loadReports, result, histVars>>

\* lines 448, 453-454: (Chat fallback) reload resolved
RewriteReloaded(c) ==
    /\ kind[c] = "rewrite" /\ pc[c] = "r_reload"
    /\ llmInitialized' = TRUE
    /\ Goto(c, "r_inited")
    /\ Emit(c, <<ExtDone("reload"), Stage("llm_init_complete")>>)
    /\ UNCHANGED <<textVars, caps, llmModelLibUrl, chatModule, extVars, kind, convVars,
                   llmVars, result, histVars>>

\* lines 455-459: CreateMLCEngine or reload rejected
RewriteInitFailed(c) ==
    /\ kind[c] = "rewrite" /\ pc[c] \in {"r_create", "r_reload"}
    /\ llmInitialized' = FALSE
    /\ Goto(c, "rejected")
    /\ Emit(c, <<ErrorReport("llm_init_error"), Throw("llm_init_failed")>>)
    /\ UNCHANGED <<textVars, caps, llmModelLibUrl, chatModule, extVars, kind, convVars,
                   llmVars, result, histVars>>

\* line 470: the readiness check after _initializeLLM returned
NotReady == ~llmInitialized \/ chatModule = NoHandle

\* lines 470-494: the check, the prompt, the start report, the generate call
RewriteAfterInit(c) ==
    /\ kind[c] = "rewrite" /\ pc[c] = "r_inited"
    /\ IF NotReady
       THEN /\ Goto(c, "rejected")
            /\ Emit(c, <<Throw("llm_not_ready")>>)
       ELSE /\ Goto(c, "r_generate")
            /\ Emit(c, <<Stage("llm_generate_start"), ExtCall("generate")>>)
    /\ UNCHANGED <<textVars, instVars, extVars, kind, convVars, llmVars, result, histVars>>

\* lines 489-500: the reply
RewriteGenerated(c) ==
    /\ kind[c] = "rewrite" /\ pc[c] = "r_generate"
    /\ Goto(c, "resolved")
    /\ result' = [result EXCEPT ![c] = {Reply}]
    /\ Emit(c, <<Stage("llm_generate_complete"), Return>>)
    /\ UNCHANGED <<textVars, instVars, extVars, kind, convVars, llmVars, histVars>>

\* (mutation of RewriteGenerateFailed: the catch marks the engine not ready)
RewriteGenerateFailed_ResetsInitialized(c) ==
    /\ kind[c] = "rewrite" /\ pc[c] = "r_generate"
    /\ llmInitialized' = FALSE
    /\ Goto(c, "rejected")
    /\ Emit(c, <<ErrorReport("llm_generate_error"), Throw("llm_generate_failed")>>)
    /\ UNCHANGED <<textVars, caps, llmModelLibUrl, chatModule, extVars, kind, convVars,
                   llmVars, result, histVars>>

\* lines 501-504: the generate call rejected
RewriteGenerateFailed(c) ==
    /\ kind[c] = "rewrite" /\ pc[c] = "r_generate"
    /\ Goto(c, "rejected")
    /\ Emit(c, <<ErrorReport("llm_generate_error"), Throw("llm_generate_failed")>>)
    /\ UNCHANGED <<textVars, instVars, extVars, kind, convVars, llmVars, result, histVars>>

\* -------------------------------------------------------------- unloadLLM
\* (mutation of HasEngine: the guard of unloadLLM dropped)
HasEngine_Always == TRUE

\* line 508: this.chatModule is set
HasEngine == chatModule # NoHandle

\* lines 507-510, 515: nothing to do without a handle; else await unload()
UnloadCall(c) ==
    /\ IF HasEngine
       THEN /\ Goto(c, "u_unload")
            /\ oldEngine' = [oldEngine EXCEPT ![c] = chatModule]
            /\ Emit(c, <<Stage("llm_unload"), ExtCall("unload")>>)
            /\ UNCHANGED result
       ELSE /\ Goto(c, "resolved")
            /\ result' = [result EXCEPT ![c] = {<<>>}]
            /\ Emit(c, <<Return>>)
            /\ UNCHANGED oldEngine
    /\ UNCHANGED <<instVars, extVars, convVars, reqModel, newEngine, loadReports>>

\* unloadLLM called by a caller
UnloadStart(c) ==
    /\ Begin(c, "unload")
    /\ UnloadCall(c)
    /\ UNCHANGED textVars

\* (mutation of UnloadDone: llmInitialized is not reset)
UnloadDone_KeepsInitialized(c) ==
    /\ kind[c] = "unload" /\ pc[c] = "u_unload"
    /\ liveLLM' = liveLLM \ {oldEngine[c]}
    /\ chatModule' = NoHandle
    /\ Goto(c, "resolved")
    /\ result' = [result EXCEPT ![c] = {<<>>}]
    /\ Emit(c, <<ExtDone("unload"), Stage("llm_unload_complete"), Return>>)
    /\ UNCHANGED <<textVars, caps, llmModelLibUrl, llmInitialized, engModel, ocrCreated, liveOCR,
                   kind, convVars, llmVars, histVars>>

\* lines 510-514: the engine is unloaded; both fields are reset
UnloadDone(c) ==
    /\ kind[c] = "unload" /\ pc[c] = "u_unload"
    /\ liveLLM' = liveLLM \ {oldEngine[c]}
    /\ chatModule' = NoHandle
    /\ llmInitialized' = FALSE
    /\ Goto(c, "resolved")
    /\ result' = [result EXCEPT ![c] = {<<>>}]
    /\ Emit(c, <<ExtDone("unload"), Stage("llm_unload_complete"), Return>>)
    /\ UNCHANGED <<textVars, caps, llmModelLibUrl, engModel, ocrCreated, liveOCR, kind,
                   convVars, llmVars, histVars>>

\* ------------------------------------------------------------------- Next
Next ==
    \E c \in Calls :
        \/ QuickStart(c) \/ QuickBuffer(c) \/ QuickOpen(c) \/ QuickGetPage(c)
        \/ QuickText(c) \/ QuickFinish(c)
        \/ OcrStart(c) \/ OcrWorkerCreated(c) \/ OcrWorkerFailed(c) \/ OcrBuffer(c)
        \/ OcrOpen(c) \/ OcrGetPage(c) \/ OcrRendered(c) \/ OcrRecognized(c)
        \/ OcrTerminated(c) \/ UncaughtReject(c)
        \/ RewriteStart(c) \/ RewriteUnloaded(c) \/ LlmLoadProgress(c)
        \/ RewriteCreated(c) \/ RewriteReloaded(c) \/ RewriteInitFailed(c)
        \/ RewriteAfterInit(c) \/ RewriteGenerated(c) \/ RewriteGenerateFailed(c)
        \/ UnloadStart(c) \/ UnloadDone(c)

Spec == Init /\ [][Next]_vars

\* ============================================================ the texts
\* A text is a sequence of characters; a character is written as itself, a
\* character outside printable ASCII by its escape or its code point.
LF == "\n"
Upper == {"A", "B", "C", "D", "E", "F", "G", "H", "I", "J", "K", "L", "M", "N", "O", "P", "Q", "R", "S", "T", "U", "V", "W", "X", "Y", "Z"}
Lower == {"a", "b", "c", "d", "e", "f", "g", "h", "i", "j", "k", "l", "m", "n", "o", "p", "q", "r", "s", "t", "u", "v", "w", "x", "y", "z"}
Digit == {"0", "1", "2", "3", "4", "5", "6", "7", "8", "9"}
\* the characters matched by \s, which are also those String.trim removes
WhiteSpace ==
    {" ", "\t", LF, "\r", "\f", "U+000B", "U+00A0", "U+1680", "U+2000", "U+2001",
     "U+2002", "U+2003", "U+2004", "U+2005", "U+2006", "U+2007", "U+2008", "U+2009",
     "U+200A", "U+2028", "U+2029", "U+202F", "U+205F", "U+3000", "U+FEFF"}
\* the characters matched by \w
WordChar == Upper \cup Lower \cup Digit \cup {"_"}

Min(S) == CHOOSE x \in S : \A y \in S : x <= y
Max(S) == CHOOSE x \in S : \A y \in S : x >= y
NonSpaceAt(s) == {k \in 1..Len(s) : s[k] \notin WhiteSpace}

\* String.prototype.trim / trimEnd
Trim(s) == IF NonSpaceAt(s) = {} THEN <<>> ELSE SubSeq(s, Min(NonSpaceAt(s)), Max(NonSpaceAt(s)))
TrimEnd(s) == IF NonSpaceAt(s) = {} THEN <<>> ELSE SubSeq(s, 1, Max(NonSpaceAt(s)))

\* rawText.split(/\n/): the pieces between the line feeds
SplitLines(s) ==
    LET nl == {k \in 1..Len(s) : s[k] = LF}
        Nth(j) == CHOOSE k \in nl : Cardinality({m \in nl : m < k}) = j - 1
    IN  [j \in 1..(Cardinality(nl) + 1) |->
            SubSeq(s, IF j = 1 THEN 1 ELSE Nth(j - 1) + 1,
                      IF j = Cardinality(nl) + 1 THEN Len(s) ELSE Nth(j) - 1)]

\* Array.prototype.join
RECURSIVE Join(_, _)
Join(ls, sep) ==
    IF ls = <<>> THEN <<>>
    ELSE IF Len(ls) = 1 THEN ls[1]
    ELSE ls[1] \o sep \o Join(Tail(ls), sep)

\* the length of the run of characters of class cs starting at position k
ClassRun(s, k, cs) ==
    LET stop == {j \in k..Len(s) : s[j] \notin cs}
    IN  IF k > Len(s) THEN 0 ELSE IF stop = {} THEN Len(s) - k + 1 ELSE Min(stop) - k

\* the maximal runs of white space of s that are at least two long, each by
\* its first position: the matches of /\s{2,}/g
SpaceRuns(s) ==
    {k \in 1..Len(s) :
        /\ s[k] \in WhiteSpace
        /\ k = 1 \/ s[k - 1] \notin WhiteSpace
        /\ ClassRun(s, k, WhiteSpace) >= 2}

\* s.replace(/\n{min,}/g, '\n\n') from position k on: every maximal run of
\* at least `min` line feeds becomes two line feeds
RECURSIVE CollapseFrom(_, _, _)
CollapseFrom(s, k, min) ==
    LET at == {j \in k..Len(s) : ClassRun(s, j, {LF}) >= min}
    IN  IF at = {} THEN SubSeq(s, k, Len(s))
        ELSE SubSeq(s, k, Min(at) - 1) \o <<LF, LF>>
             \o CollapseFrom(s, Min(at) + ClassRun(s, Min(at), {LF}), min)
CollapseLineFeeds(s, min) == CollapseFrom(s, 1, min)

\* s.replace(/\r\n/g, '\n') from position k on
RECURSIVE CrLfFrom(_, _)
CrLfFrom(s, k) ==
    LET at == {j \in k..(Len(s) - 1) : s[j] = "\r" /\ s[j + 1] = LF}
    IN  IF at = {} THEN SubSeq(s, k, Len(s))
        ELSE SubSeq(s, k, Min(at) - 1) \o <<LF>> \o CrLfFrom(s, Min(at) + 2)
CrLfToLf(s) == CrLfFrom(s, 1)

\* -------------------------------------------------------- _postProcessText
\* A rule is { find, replace }.  `kind` tells what `find` is:
\*   "class"     /[chars]/g          each character of the class
\*   "classrun"  /[chars]+/g         each maximal run of characters of the class
\*   "pascal"    /([A-Z][a-z]+)([A-Z][a-z]+)/g   with replace '$1 $2'
\*   "camel"     /([a-z])([A-Z][a-z]+)/g         with replace '$1 $2'
\*   "regex"     /lit/g              a caller's global regular expression
\*   "string"    'lit'               a caller's plain string
\*   "nofind"    find is missing;  "badreplace"  replace is not a string
\*   "coerced"   find is a truthy value that is neither a regular expression
\*               nor a string (an array, a number): replace() converts it to
\*               the string `lit`
\*   "nullrule"  the entry of the list is null or undefined
\* `origin` records where the rule was configured.
Rule(o, k, cs, l, r) == [origin |-> o, kind |-> k, chars |-> cs, lit |-> l, repl |-> r]
BuiltIn(k, cs, r) == Rule("builtin", k, cs, <<>>, r)

\* (mutation of BuiltInRules: the whitespace rule runs first)
BuiltInRules_SpaceFirst ==
    << BuiltIn("classrun", WhiteSpace, <<" ">>),
       BuiltIn("class", {"U+FB00"}, <<"f", "f">>),
       BuiltIn("class", {"U+FB01"}, <<"f", "i">>),
       BuiltIn("class", {"U+FB02"}, <<"f", "l">>),
       BuiltIn("class", {"U+FB03"}, <<"f", "f", "i">>),
       BuiltIn("class", {"U+FB04"}, <<"f", "f", "l">>),
       BuiltIn("class", {"U+2018", "U+2019"}, <<"'">>),
       BuiltIn("class", {"U+201C", "U+201D"}, <<"\"">>),
       BuiltIn("class", {"U+2022", "U+2023", "U+25E6", "U+2043", "U+2219", "U+25CF",
                         "U+25CB", "U+2981", "U+2619", "U+2765"}, <<"-">>),
       BuiltIn("class", {"U+2013", "U+2014"}, <<"-">>),
       BuiltIn("class", {"U+00AD"}, <<>>) >>
\* (mutation of BuiltInRules: the whitespace rule leaves the line breaks)
BuiltInRules_KeepsLineBreaks ==
    << BuiltIn("class", {"U+FB00"}, <<"f", "f">>),
       BuiltIn("class", {"U+FB01"}, <<"f", "i">>),
       BuiltIn("class", {"U+FB02"}, <<"f", "l">>),
       BuiltIn("class", {"U+FB03"}, <<"f", "f", "i">>),
       BuiltIn("class", {"U+FB04"}, <<"f", "f", "l">>),
       BuiltIn("class", {"U+2018", "U+2019"}, <<"'">>),
       BuiltIn("class", {"U+201C", "U+201D"}, <<"\"">>),
       BuiltIn("class", {"U+2022", "U+2023", "U+25E6", "U+2043", "U+2219", "U+25CF",
                         "U+25CB", "U+2981", "U+2619", "U+2765"}, <<"-">>),
       BuiltIn("class", {"U+2013", "U+2014"}, <<"-">>),
       BuiltIn("class", {"U+00AD"}, <<>>),
       BuiltIn("classrun", WhiteSpace \ {LF, "\r"}, <<" ">>) >>
\* (mutation of BuiltInRules: the soft hyphen is kept)
BuiltInRules_NoSoftHyphen ==
    << BuiltIn("class", {"U+FB00"}, <<"f", "f">>),
       BuiltIn("class", {"U+FB01"}, <<"f", "i">>),
       BuiltIn("class", {"U+FB02"}, <<"f", "l">>),
       BuiltIn("class", {"U+FB03"}, <<"f", "f", "i">>),
       BuiltIn("class", {"U+FB04"}, <<"f", "f", "l">>),
       BuiltIn("class", {"U+2018", "U+2019"}, <<"'">>),
       BuiltIn("class", {"U+201C", "U+201D"}, <<"\"">>),
       BuiltIn("class", {"U+2022", "U+2023", "U+25E6", "U+2043", "U+2219", "U+25CF",
                         "U+25CB", "U+2981", "U+2619", "U+2765"}, <<"-">>),
       BuiltIn("class", {"U+2013", "U+2014"}, <<"-">>),
       BuiltIn("classrun", WhiteSpace, <<" ">>) >>

\* lines 93-106
BuiltInRules ==
    << BuiltIn("class", {"U+FB00"}, <<"f", "f">>),
       BuiltIn("class", {"U+FB01"}, <<"f", "i">>),
       BuiltIn("class", {"U+FB02"}, <<"f", "l">>),
       BuiltIn("class", {"U+FB03"}, <<"f", "f", "i">>),
       BuiltIn("class", {"U+FB04"}, <<"f", "f", "l">>),
       BuiltIn("class", {"U+2018", "U+2019"}, <<"'">>),
       BuiltIn("class", {"U+201C", "U+201D"}, <<"\"">>),
       BuiltIn("class", {"U+2022", "U+2023", "U+25E6", "U+2043", "U+2219", "U+25CF",
                         "U+25CB", "U+2981", "U+2619", "U+2765"}, <<"-">>),
       BuiltIn("class", {"U+2013", "U+2014"}, <<"-">>),
       BuiltIn("class", {"U+00AD"}, <<>>),
       BuiltIn("classrun", WhiteSpace, <<" ">>) >>

\* lines 108-114
SplitRules ==
    << Rule("split", "pascal", {}, <<>>, <<>>),
       Rule("split", "camel", {}, <<>>, <<>>),
       Rule("split", "pascal", {}, <<>>, <<>>) >>

\* lines 93-114: this.defaultPostProcessRules after the constructor
DefaultPostProcessRules(split) == IF split THEN BuiltInRules \o SplitRules ELSE BuiltInRules

\* (mutation of RuleList: the splitting rules come after the caller's rules)
RuleList_SplitLast(split, custom, additional) ==
    BuiltInRules \o custom \o additional \o (IF split THEN SplitRules ELSE <<>>)

\* line 157
RuleList(split, custom, additional) == DefaultPostProcessRules(split) \o custom \o additional

IsAt(s, k, l) == k + Len(l) - 1 <= Len(s) /\ SubSeq(s, k, k + Len(l) - 1) = l

\* the length of the match of rule r's pattern starting at position k, or 0
MatchLength(r, s, k) ==
    CASE r.kind = "class" -> IF s[k] \in r.chars THEN 1 ELSE 0
      [] r.kind = "classrun" -> ClassRun(s, k, r.chars)
      [] r.kind = "regex" -> IF IsAt(s, k, r.lit) THEN Len(r.lit) ELSE 0
      [] r.kind = "pascal" ->
            LET a == ClassRun(s, k + 1, Lower)
                b == ClassRun(s, k + a + 2, Lower)
            IN  IF /\ s[k] \in Upper /\ a >= 1
                   /\ k + a + 1 <= Len(s) /\ s[k + a + 1] \in Upper /\ b >= 1
                THEN a + b + 2 ELSE 0
      [] r.kind = "camel" ->
            LET b == ClassRun(s, k + 2, Lower)
            IN  IF /\ s[k] \in Lower
                   /\ k + 1 <= Len(s) /\ s[k + 1] \in Upper /\ b >= 1
                THEN b + 2 ELSE 0
      [] OTHER -> 0

\* what the match of length m at position k is replaced by
Replacement(r, s, k, m) ==
    CASE r.kind = "pascal" ->
            SubSeq(s, k, k + ClassRun(s, k + 1, Lower)) \o <<" ">>
            \o SubSeq(s, k + ClassRun(s, k + 1, Lower) + 1, k + m - 1)
      [] r.kind = "camel" -> <<s[k], " ">> \o SubSeq(s, k + 1, k + m - 1)
      [] OTHER -> r.repl

\* s.replace(find, replace) for a global regular expression, from position
\* k on: the matches are found left to right, none overlapping
RECURSIVE ReplaceGlobal(_, _, _)
ReplaceGlobal(r, s, k) ==
    LET at == {j \in k..Len(s) : MatchLength(r, s, j) > 0}
    IN  IF at = {} THEN SubSeq(s, k, Len(s))
        ELSE SubSeq(s, k, Min(at) - 1)
             \o Replacement(r, s, Min(at), MatchLength(r, s, Min(at)))
             \o ReplaceGlobal(r, s, Min(at) + MatchLength(r, s, Min(at)))

\* s.replace(find, replace) for a plain string: the first occurrence only
ReplaceFirst(r, s) ==
    LET at == {k \in 1..Len(s) : IsAt(s, k, r.lit)}
    IN  IF at = {} THEN s
        ELSE SubSeq(s, 1, Min(at) - 1) \o r.repl \o SubSeq(s, Min(at) + Len(r.lit), Len(s))

\* line 160: reading rule.find of null or undefined raises a TypeError
Throws(r) == r.kind = "nullrule"

\* line 160: rule.find && typeof rule.replace === 'string'
WellFormed(r) ==
    /\ r.kind \notin {"nofind", "badreplace", "nullrule"}
    /\ r.kind = "string" => r.lit # <<>>

\* lines 160-162
ApplyRule(r, s) ==
    IF ~WellFormed(r) THEN s
    ELSE IF r.kind \in {"string", "coerced"} THEN ReplaceFirst(r, s)
    ELSE ReplaceGlobal(r, s, 1)

\* where _postProcessText returns to: line 296, line 355, or its caller
AfterPostProcessText ==
    CASE entry = "quickConvert" -> "qc_cleanup"
      [] entry = "highAccuracyConvert" -> "ha_cleanup"
      [] OTHER -> "done"

\* lines 155-157: the early return for a falsy text, or the rule list
PpEnter ==
    /\ tpc = "pp_enter"
    /\ IF text = <<>>
       THEN /\ cleanedText' = <<>>
            /\ tpc' = AfterPostProcessText
            /\ UNCHANGED rules
       ELSE /\ cleanedText' = text
            /\ rules' = RuleList(splitPascalCase, customPostProcessRules, additionalRules)
            /\ tpc' = "pp_rules"
    /\ UNCHANGED <<orchVars, appVars, auxVars, entry, splitPascalCase, customPostProcessRules,
                   additionalRules, text, ruleIdx, applied, reconVars>>

\* lines 159-163: one iteration of the loop over the rules
PpRule ==
    /\ tpc = "pp_rules" /\ ruleIdx < Len(rules)
    /\ IF Throws(rules[ruleIdx + 1])
       THEN /\ tpc' = "threw"
            /\ UNCHANGED <<cleanedText, applied, ruleIdx>>
       ELSE /\ cleanedText' = ApplyRule(rules[ruleIdx + 1], cleanedText)
            /\ applied' = Append(applied, rules[ruleIdx + 1].origin)
            /\ ruleIdx' = ruleIdx + 1
            /\ UNCHANGED tpc
    /\ UNCHANGED <<orchVars, appVars, auxVars, entry, splitPascalCase, customPostProcessRules,
                   additionalRules, text, rules, reconVars>>

\* line 164: return cleanedText.trim()
PpReturn ==
    /\ tpc = "pp_rules" /\ ruleIdx = Len(rules)
    /\ cleanedText' = Trim(cleanedText)
    /\ tpc' = AfterPostProcessText
    /\ UNCHANGED <<orchVars, appVars, auxVars, entry, splitPascalCase, customPostProcessRules,
                   additionalRules, text, rules, ruleIdx, applied, reconVars>>

\* ----------------------------------------- the clean-up of the conversions
\* lines 297 and 356
CleanUp(s) == Trim(CollapseLineFeeds(CrLfToLf(s), MinLineFeedRun))

\* lines 297-300: the cleaned text is handed to _convertToMarkdownLogic
QcCleanup ==
    /\ tpc = "qc_cleanup"
    /\ cleanedText' = CleanUp(cleanedText)
    /\ rawText' = CleanUp(cleanedText)
    /\ tpc' = "md_split"
    /\ UNCHANGED <<orchVars, appVars, auxVars, entry, splitPascalCase, customPostProcessRules,
                   additionalRules, text, rules, ruleIdx, applied, inputLines, loopI,
                   markdownOutputLines, currentParagraphCollector,
                   inPotentialTableBlock, potentialTableBlockLines, finalMarkdown,
                   blocks, paraSrc, tableSrc, skipped>>

\* (mutation of HaCleanup: the cleaned text is returned as it is)
HaCleanup_ReturnsText ==
    /\ tpc = "ha_cleanup"
    /\ cleanedText' = CleanUp(cleanedText)
    /\ rawText' = CleanUp(cleanedText)
    /\ finalMarkdown' = CleanUp(cleanedText)
    /\ tpc' = "done"
    /\ UNCHANGED <<orchVars, appVars, auxVars, entry, splitPascalCase, customPostProcessRules,
                   additionalRules, text, rules, ruleIdx, applied, inputLines, loopI,
                   markdownOutputLines, currentParagraphCollector,
                   inPotentialTableBlock, potentialTableBlockLines,
                   blocks, paraSrc, tableSrc, skipped>>

\* lines 356-359: the same two statements in highAccuracyConvert
HaCleanup ==
    /\ tpc = "ha_cleanup"
    /\ cleanedText' = CleanUp(cleanedText)
    /\ rawText' = CleanUp(cleanedText)
    /\ tpc' = "md_split"
    /\ UNCHANGED <<orchVars, appVars, auxVars, entry, splitPascalCase, customPostProcessRules,
                   additionalRules, text, rules, ruleIdx, applied, inputLines, loopI,
                   markdownOutputLines, currentParagraphCollector,
                   inPotentialTableBlock, potentialTableBlockLines, finalMarkdown,
                   blocks, paraSrc, tableSrc, skipped>>

\* ------------------------------------------------ _convertToMarkdownLogic
\* the three grave accents (U+0060) that open and close a fenced block
Fence == <<"U+0060", "U+0060", "U+0060">>
SentencePunctuation == {".", ",", ";", ":", "!", "?"}

\* line 208
IsShortLine(t) == Len(t) > 0 /\ Len(t) < ShortLineLimit
\* (mutation of NoPunctuationEnd: the closing punctuation is not looked at)
NoPunctuationEnd_Ignored(t) == IsShortLine(t)
\* line 209: !/[.,;:!?]$/.test(trimmedLine)
NoPunctuationEnd(t) == IsShortLine(t) /\ t[Len(t)] \notin SentencePunctuation
\* line 210: /^[A-Z\s\d\W]*[A-Z][A-Z\s\d\W]*$/, /[A-Z]/, !/^\d+$/
IsAllCapsLine(t) ==
    /\ Len(t) > AllCapsMinLength /\ Len(t) < ShortLineLimit
    /\ \A k \in 1..Len(t) :
          t[k] \in Upper \/ t[k] \in WhiteSpace \/ t[k] \in Digit \/ t[k] \notin WordChar
    /\ \E k \in 1..Len(t) : t[k] \in Upper
    /\ ~(Len(t) >= 1 /\ \A k \in 1..Len(t) : t[k] \in Digit)
\* line 211 (with lines numbered from 1, i + 1 === inputLines.length is k = Len)
NextLineIsBlankOrEndOfFile(ls, k) == k = Len(ls) \/ Trim(ls[k + 1]) = <<>>
\* (mutation of IsHeadingLine: a line of one character can be a heading)
IsHeadingLine_NoMinLength(ls, k) ==
    LET t == Trim(ls[k])
    IN  \/ IsAllCapsLine(t)
        \/ /\ IsShortLine(t) /\ NoPunctuationEnd(t)
           /\ NextLineIsBlankOrEndOfFile(ls, k)
\* line 213
IsHeadingLine(ls, k) ==
    LET t == Trim(ls[k])
    IN  \/ IsAllCapsLine(t)
        \/ /\ IsShortLine(t) /\ NoPunctuationEnd(t)
           /\ NextLineIsBlankOrEndOfFile(ls, k)
           /\ Len(t) > HeadingMinLength
\* line 218: inputLines[i + 1] is truthy (not undefined, not '') and blank
SkipsNextLine(ls, k) ==
    /\ NextLineIsBlankOrEndOfFile(ls, k)
    /\ k < Len(ls) /\ ls[k + 1] # <<>> /\ Trim(ls[k + 1]) = <<>>
\* line 224: /\S\s{2,}\S/.test(originalLine)
HasMultipleSpacesBetweenWords(l) ==
    \E k \in SpaceRuns(l) : k > 1 /\ k + ClassRun(l, k, WhiteSpace) - 1 < Len(l)
\* line 225: originalLine.split(/\s{2,}/).length > 2 && originalLine.length > 10
HasMultipleColumnsBySpaces(l) ==
    Cardinality(SpaceRuns(l)) + 1 > MinColumnParts /\ Len(l) > MinColumnsLineLength
\* line 226
IsTabularLine(l) == HasMultipleSpacesBetweenWords(l) \/ HasMultipleColumnsBySpaces(l)

\* the locals the two closures work on, as one record
Locals ==
    [out |-> markdownOutputLines, para |-> currentParagraphCollector,
     inTable |-> inPotentialTableBlock, table |-> potentialTableBlockLines,
     blocks |-> blocks, paraSrc |-> paraSrc, tableSrc |-> tableSrc]
Block(k, src, content, at) == [kind |-> k, src |-> src, content |-> content, at |-> at]

\* lines 175-181
FlushCurrentParagraph(st) ==
    IF Len(st.para) > 0
    THEN [st EXCEPT
            !.out = @ \o <<Trim(Join(st.para, <<" ">>)), <<>>>>,
            !.para = <<>>,
            !.blocks = Append(@, Block("paragraph", st.paraSrc,
                                       <<Trim(Join(st.para, <<" ">>))>>, Len(st.out) + 1)),
            !.paraSrc = <<>>]
    ELSE st

\* (mutation of FlushPotentialTableBlock: a single line is fenced too)
FlushPotentialTableBlock_AlwaysFenced(st) ==
    IF Len(st.table) > 0
    THEN [st EXCEPT
            !.out = @ \o <<Fence>> \o [k \in 1..Len(st.table) |-> TrimEnd(st.table[k])]
                      \o <<Fence>> \o <<<<>>>>,
            !.table = <<>>, !.inTable = FALSE,
            !.blocks = Append(@, Block("fenced", st.tableSrc,
                           [k \in 1..Len(st.table) |-> TrimEnd(st.table[k])],
                           Len(st.out) + 1)),
            !.tableSrc = <<>>]
    ELSE [st EXCEPT !.inTable = FALSE]

\* lines 183-196
FlushPotentialTableBlock(st) ==
    IF Len(st.table) > 0
    THEN IF Len(st.table) >= MinFencedLines
         THEN [st EXCEPT
                 !.out = @ \o <<Fence>> \o [k \in 1..Len(st.table) |-> TrimEnd(st.table[k])]
                           \o <<Fence>> \o <<<<>>>>,
                 !.table = <<>>, !.inTable = FALSE,
                 !.blocks = Append(@, Block("fenced", st.tableSrc,
                                [k \in 1..Len(st.table) |-> TrimEnd(st.table[k])],
                                Len(st.out) + 1)),
                 !.tableSrc = <<>>]
         ELSE [st EXCEPT
                 !.out = @ \o <<Trim(Join(st.table, <<" ">>)), <<>>>>,
                 !.table = <<>>, !.inTable = FALSE,
                 !.blocks = Append(@, Block("paragraph", st.tableSrc,
                                <<Trim(Join(st.table, <<" ">>))>>, Len(st.out) + 1)),
                 !.tableSrc = <<>>]
    ELSE [st EXCEPT !.inTable = FALSE]

FlushTableIfOpen(st) == IF st.inTable THEN FlushPotentialTableBlock(st) ELSE st

\* (mutation of BlankLine: a blank line pushes a separator of its own)
BlankLine_PushesSeparator(st) ==
    [FlushCurrentParagraph(FlushTableIfOpen(st)) EXCEPT !.out = @ \o <<<<>>>>]
\* lines 202-206: a blank line
BlankLine(st) == FlushCurrentParagraph(FlushTableIfOpen(st))
\* (mutation of HeadingLine: the collectors are not flushed first)
HeadingLine_NoFlush(st, k, t) ==
    [st EXCEPT !.out = @ \o <<<<"#", " ">> \o t, <<>>>>,
               !.blocks = Append(@, Block("heading", <<k>>, <<t>>, Len(st.out) + 1))]
\* lines 213-217: a heading line
HeadingLine(st, k, t) ==
    LET f == FlushCurrentParagraph(FlushTableIfOpen(st))
    IN  [f EXCEPT !.out = @ \o <<<<"#", " ">> \o t, <<>>>>,
                  !.blocks = Append(@, Block("heading", <<k>>, <<t>>, Len(f.out) + 1))]
\* (mutation of TableLine: the pending paragraph is not flushed)
TableLine_NoFlush(st, k, l) ==
    [st EXCEPT !.inTable = TRUE, !.table = Append(@, l), !.tableSrc = Append(@, k)]
\* lines 227-229: a line of a potential table
TableLine(st, k, l) ==
    LET f == FlushCurrentParagraph(st)
    IN  [f EXCEPT !.inTable = TRUE, !.table = Append(@, l), !.tableSrc = Append(@, k)]
\* (mutation of TextLine: the line is not collected)
TextLine_Dropped(st, k, t) == FlushTableIfOpen(st)
\* lines 231-232: a line of running text
TextLine(st, k, t) ==
    LET f == FlushTableIfOpen(st)
    IN  IF t # <<>> THEN [f EXCEPT !.para = Append(@, t), !.paraSrc = Append(@, k)] ELSE f

\* (mutation of LoopBody: the table test comes before the heading test)
LoopBody_TableFirst(st, ls, k) ==
    LET t == Trim(ls[k])
    IN  IF t = <<>> THEN BlankLine(st)
        ELSE IF IsTabularLine(ls[k]) THEN TableLine(st, k, ls[k])
        ELSE IF IsHeadingLine(ls, k) THEN HeadingLine(st, k, t)
        ELSE TextLine(st, k, t)
\* lines 199-234: the body of the loop for input line k
LoopBody(st, ls, k) ==
    LET t == Trim(ls[k])
    IN  IF t = <<>> THEN BlankLine(st)
        ELSE IF IsHeadingLine(ls, k) THEN HeadingLine(st, k, t)
        ELSE IF IsTabularLine(ls[k]) THEN TableLine(st, k, ls[k])
        ELSE TextLine(st, k, t)
\* line 218 (i++) and the loop's own i++
NextLine(ls, k) ==
    IF Trim(ls[k]) # <<>> /\ IsHeadingLine(ls, k) /\ SkipsNextLine(ls, k) THEN k + 2 ELSE k + 1

\* (mutation of FinalMarkdown: the joined text is not trimmed)
FinalMarkdown_NoTrim(out) ==
    CollapseLineFeeds(Join([k \in 1..Len(out) |-> TrimEnd(out[k])], <<LF>>), LongLineFeedRun)

\* lines 240-242
FinalMarkdown(out) ==
    Trim(CollapseLineFeeds(Join([k \in 1..Len(out) |-> TrimEnd(out[k])], <<LF>>),
                           LongLineFeedRun))

SetLocals(st) ==
    /\ markdownOutputLines' = st.out
    /\ currentParagraphCollector' = st.para
    /\ inPotentialTableBlock' = st.inTable
    /\ potentialTableBlockLines' = st.table
    /\ blocks' = st.blocks
    /\ paraSrc' = st.paraSrc
    /\ tableSrc' = st.tableSrc

\* lines 168-173: the input is split into lines, the locals are empty
MdSplit ==
    /\ tpc = "md_split"
    /\ inputLines' = SplitLines(rawText)
    /\ loopI' = 1
    /\ tpc' = "md_loop"
    /\ UNCHANGED <<orchVars, appVars, auxVars, entry, normVars, rawText, markdownOutputLines,
                   currentParagraphCollector, inPotentialTableBlock,
                   potentialTableBlockLines, finalMarkdown, blocks, paraSrc, tableSrc,
                   skipped>>

\* lines 198-235: one iteration of the loop
MdLine ==
    /\ tpc = "md_loop" /\ loopI <= Len(inputLines)
    /\ SetLocals(LoopBody(Locals, inputLines, loopI))
    /\ loopI' = NextLine(inputLines, loopI)
    /\ skipped' = skipped \cup ((loopI + 1)..(NextLine(inputLines, loopI) - 1))
    /\ UNCHANGED <<orchVars, appVars, auxVars, entry, tpc, normVars, rawText, inputLines, finalMarkdown>>

\* lines 237-242: the loop is over; the last flushes, the joined result
MdFinish ==
    /\ tpc = "md_loop" /\ loopI > Len(inputLines)
    /\ SetLocals(FlushCurrentParagraph(FlushTableIfOpen(Locals)))
    /\ finalMarkdown' = FinalMarkdown(FlushCurrentParagraph(FlushTableIfOpen(Locals)).out)
    /\ tpc' = "done"
    /\ UNCHANGED <<orchVars, appVars, auxVars, entry, normVars, rawText, inputLines, loopI, skipped>>

\* ---------------------------------------------------- _extractTextWithPdfJs
\* A text item of a page is { str, hasEOL, transform, width, height }; x and
\* y stand for transform[4] and transform[5].  Lengths are counted in
\* quarters of a unit, so that -0.5 is GapThreshold.
Item(str, eol, x, y, w, h) ==
    [str |-> str, hasEOL |-> eol, x |-> x, y |-> y, width |-> w, height |-> h]
EndsWith(s, ch) == s # <<>> /\ s[Len(s)] = ch
StartsWith(s, ch) == s # <<>> /\ s[1] = ch
Abs(n) == IF n < 0 THEN 0 - n ELSE n
\* line 272: Math.abs(item.transform[5] - nextItem.transform[5]) < item.height * 0.5
SameBaseline(item, nextItem) == 2 * Abs(item.y - nextItem.y) < item.height
\* (mutation of GapAllowsSpace: fragments that overlap at all get no space)
GapAllowsSpace_NoOverlap(item, nextItem) == nextItem.x - (item.x + item.width) >= 0
\* lines 273-275: nextItemStartX - currentItemEndX > -0.5
GapAllowsSpace(item, nextItem) == nextItem.x - (item.x + item.width) > GapThreshold
\* line 272
BothInked(item, nextItem) ==
    /\ item.str # <<>> /\ ~EndsWith(item.str, " ")
    /\ nextItem.str # <<>> /\ ~StartsWith(nextItem.str, " ")
\* lines 268-279: what follows item k in the buffer, which ends with its str
AfterItem(buffer, items, k) ==
    IF items[k].hasEOL
    THEN IF EndsWith(buffer, LF) THEN <<>> ELSE <<LF>>
    ELSE IF /\ k < Len(items)
            /\ BothInked(items[k], items[k + 1])
            /\ SameBaseline(items[k], items[k + 1])
            /\ GapAllowsSpace(items[k], items[k + 1])
         THEN <<" ">> ELSE <<>>
\* line 283
AfterPage(buffer) ==
    IF Trim(buffer) # <<>> /\ ~EndsWith(buffer, LF) THEN <<LF>> ELSE <<>>

\* lines 266-279: one iteration of the loop over the items of the page
ExtractItem ==
    /\ tpc = "ex_items" /\ itemI <= Len(textContents[pageNo])
    /\ LET items == textContents[pageNo]
           sep == AfterItem(pageTextBuffer \o items[itemI].str, items, itemI)
       IN  /\ pageTextBuffer' = pageTextBuffer \o items[itemI].str \o sep
           /\ seps' = Append(seps, sep)
    /\ itemI' = itemI + 1
    /\ UNCHANGED <<orchVars, appVars, entry, tpc, normVars, reconVars, promptVars,
                   textContents, pageNo, fullText, pageTexts>>

\* lines 282-283: the page's text joins fullText; the next page (263), or
\* the return of line 286
ExtractPageEnd ==
    /\ tpc = "ex_items" /\ itemI > Len(textContents[pageNo])
    /\ fullText' = fullText \o pageTextBuffer \o AfterPage(pageTextBuffer)
    /\ pageTexts' = Append(pageTexts, pageTextBuffer \o AfterPage(pageTextBuffer))
    /\ IF pageNo < Len(textContents)
       THEN /\ pageNo' = pageNo + 1 /\ itemI' = 1
            /\ pageTextBuffer' = <<>> /\ seps' = <<>>
            /\ UNCHANGED tpc
       ELSE /\ tpc' = "done"
            /\ UNCHANGED <<pageNo, itemI, pageTextBuffer, seps>>
    /\ UNCHANGED <<orchVars, appVars, entry, normVars, reconVars, promptVars, textContents>>

\* ----------------------------------------------------- llmRewrite's prompt
\* A prompt template is a function text => prefix + text + suffix, or a
\* string, or absent ("none": undefined, or the empty string, which is falsy).
Template(k, pre, suf) == [kind |-> k, prefix |-> pre, suffix |-> suf]
\* line 465: the built-in instruction template
DefaultPromptTemplate == Template("function", <<"Please rewrite:">>, <<"Rewritten Text:">>)
\* line 474: promptTemplate(textToRewrite), for a function
ApplyTemplate(tpl, t) == tpl.prefix \o t \o tpl.suffix

\* lines 463-467: const promptTemplate = options.llmPromptTemplate || default
LlmResolveTemplate ==
    /\ tpc = "llm_enter"
    /\ promptTemplate' = IF callPromptTemplate.kind # "none" THEN callPromptTemplate
                         ELSE DefaultPromptTemplate
    /\ tpc' = "llm_prompt"
    /\ UNCHANGED <<orchVars, appVars, entry, normVars, reconVars, extractVars,
                   ctorPromptTemplate, callPromptTemplate, prompt>>

\* line 474, once the engine is ready (lines 469-472 are the calls of kind
\* "rewrite"): a template that is not a function raises a TypeError
LlmBuildPrompt ==
    /\ tpc = "llm_prompt"
    /\ IF promptTemplate.kind = "function"
       THEN /\ prompt' = ApplyTemplate(promptTemplate, text)
            /\ tpc' = "done"
       ELSE /\ tpc' = "threw"
            /\ UNCHANGED prompt
    /\ UNCHANGED <<orchVars, appVars, entry, normVars, reconVars, extractVars,
                   ctorPromptTemplate, callPromptTemplate, promptTemplate>>

\* ------------------------------------------------------------ the inputs
Rep(ch, n) == [k \in 1..n |-> ch]

\* the texts of at most n characters of alphabet A
TextsUpTo(A, n) == UNION {[1..m -> A] : m \in 0..n}

\* lines tried by _convertToMarkdownLogic, one for each way a line can be
\* classified, and the texts made of at most MaxLines of them
SampleLines ==
    { <<>>,
      <<" ">>,
      <<"a">>,
      <<"a", "b">>,
      <<"a", "b", ".">>,
      <<"A", "B", "C">>,
      <<"a", " ", " ", "b">>,
      <<"a", " ", " ", "b", ".">>,
      <<"A", " ", " ", "B">>,
      <<"A", "_", "B", ".">>,
      <<" ", "a", "b", ".", " ">>,
      <<" ", " ", "a", "b", "c", "d", "e", "f", "g", ".", " ", " ">>,
      Rep("a", ShortLineLimit), Rep("A", ShortLineLimit), Rep("a", ShortLineLimit - 1) }
ReconInputs == {Join(ls, <<LF>>) : ls \in UNION {[1..m -> SampleLines] : m \in 1..MaxLines}}
\* extracted texts of fewer lines, handed to a conversion
PipelineInputs ==
    {Join(ls, <<LF>>) : ls \in UNION {[1..m -> SampleLines] : m \in 1..(MaxLines - 1)}}
\* the examples of the specification's section 8
EndToEndText ==
    <<"T", "O", "T", "A", "L", " ", "D", "U", "E", LF, LF, "P", "l", "e", "a", "s",
      "e", " ", " ", " ", "p", "a", "y", " ", " ", " ", " ", "w", "i", "t", "h", "i",
      "n", " ", "3", "0", " ", "d", "a", "y", "s", ".", LF, "A", "m", "o", "u", "n",
      "t", ":", " ", " ", " ", "1", "0", "0", " ", " ", " ", "U", "S", "D", LF>>
FiveBlankLines ==
    <<"a", "b", ".", LF, LF, LF, LF, LF, LF, "c", "d", ".">>
InvoiceText ==
    <<"I", "N", "V", "O", "I", "C", "E", LF, LF, "a", "b", ".">>
PageFooter ==
    <<"P", "a", "g", "e", " ", "1", " ", "o", "f", " ", "1", "0", ".">>
AmountLine ==
    <<"A", "m", "o", "u", "n", "t", ":", " ", " ", " ", "1", "0", "0", " ", " ", " ",
      "U", "S", "D">>
TwoRowTable ==
    <<"a", " ", " ", "b", LF, "c", " ", " ", "d", LF, LF, "a", "b", ".">>
TwoRowTableInText ==
    <<"a", "b", ".", LF, "a", " ", " ", "b", ".", LF, "c", " ", " ", "d", ".", LF, "a",
      "b", ".">>
ReconScenarios ==
    {EndToEndText, FiveBlankLines, InvoiceText, PageFooter, AmountLine, TwoRowTable,
     TwoRowTableInText}
\* extracted texts handed to a conversion
PipelineScenarios ==
    { EndToEndText,
      <<"a", "b", ".", "\r", LF, "\r", LF, "c", "d", ".">>,
      <<"U+FB01", "x", " ", "U+201C", "q", "U+201D", "U+2014", "a", "U+00AD", "b", "U+00A0", "c">> }
\* every character the built-in rules of lines 94-105 replace but the bullets
AllSpecials ==
    <<"U+FB00", "U+FB01", "U+FB02", "U+FB03", "U+FB04", "U+2018", "U+2019", "U+201C",
      "U+201D", "U+2013", "U+2014", "U+00AD", "\t", "U+3000", "x", "U+2028">>
\* texts handed to _postProcessText
NormAlphabet == {"a", "B", " "}
NormScenarios ==
    { <<"U+FB01", "x", " ", "U+201C", "q", "U+201D", "U+2014", "a", "U+00AD", "b", "U+00A0", "c">>,
      <<"A", "b", "c", "D", "e", "f", "G", "h", "i">>,
      <<"f", "o", "o", "B", "a", "r", " ", "b", "a", "z">>,
      <<" ", "a", " ", LF, LF, " ", "b", " ">>,
      <<"a", " ", "U+00AD", " ", "b">>,
      AllSpecials }
NormInputs == TextsUpTo(NormAlphabet, MaxTextLen) \cup NormScenarios

\* rules a caller may pass: /a/g -> 'B', 'a' -> 'B' (a plain string),
\* /B/g -> 'a', a rule without find, a rule whose replace is not a string,
\* ['a'] -> 'B' (find is an array), and null in the place of a rule
CallerRules(o) ==
    { Rule(o, "regex", {}, <<"a">>, <<"B">>),
      Rule(o, "string", {}, <<"a">>, <<"B">>),
      Rule(o, "regex", {}, <<"B">>, <<"a">>),
      Rule(o, "nofind", {}, <<>>, <<"B">>),
      Rule(o, "badreplace", {}, <<"a">>, <<>>),
      Rule(o, "coerced", {}, <<"a">>, <<"B">>),
      Rule(o, "nullrule", {}, <<>>, <<>>) }
CallerRuleLists(o) == UNION {[1..m -> CallerRules(o)] : m \in 0..MaxCallerRules}

\* items of a page: a first fragment at x = 0, 2 units wide, and later
\* fragments that start 0.5 or 0.25 units before its end or at its end, on
\* the same baseline or 0.75 or 1 unit off it (half the height is 1 unit)
ItemWidth == 8
ItemHeight == 8
FirstItems ==
    {Item(str, eol, 0, 0, ItemWidth, h) :
        str \in {<<>>, <<"a">>, <<"a", " ">>, <<" ">>}, eol \in BOOLEAN, h \in {0, ItemHeight}}
LaterItems ==
    {Item(str, eol, x, y, ItemWidth, ItemHeight) :
        str \in {<<>>, <<"b">>, <<" ", "b">>}, eol \in BOOLEAN,
        x \in {ItemWidth - 2, ItemWidth - 1, ItemWidth}, y \in {0, 3, 4}}
ItemLists ==
    {<<>>} \cup UNION {{<<f>> \o r : f \in FirstItems, r \in [1..(m - 1) -> LaterItems]} :
                        m \in 1..MaxItems}
\* the pages of documents of several pages
SamplePages ==
    { <<>>,
      <<Item(<<" ">>, FALSE, 0, 0, ItemWidth, ItemHeight)>>,
      <<Item(<<"a">>, FALSE, 0, 0, ItemWidth, ItemHeight)>>,
      <<Item(<<"a">>, TRUE, 0, 0, ItemWidth, ItemHeight)>>,
      <<Item(<<"a">>, TRUE, 0, 0, ItemWidth, ItemHeight),
        Item(<<>>, TRUE, 0, 0, 0, 0)>> }
Documents ==
    {<<items>> : items \in ItemLists}
    \cup UNION {[1..n -> SamplePages] : n \in 2..MaxPages}
\* prompt templates a caller may pass, and texts to rewrite
PromptTemplates(o) ==
    {NoTemplate, Template("function", <<o>>, <<>>), Template("string", <<o>>, <<>>)}
RewriteTexts == {<<>>, <<"a">>, <<"a", "b">>}

\* One text function is entered on one input: _postProcessText with some
\* configuration of rules, _convertToMarkdownLogic, the text part of a
\* conversion (lines 296-300 and 355-359), the joining of the items in
\* _extractTextWithPdfJs, or the building of llmRewrite's prompt.
InitText ==
    /\ OrchInit /\ caps = "none" /\ ~llmModelLibUrl /\ chatModule = NoHandle
    /\ AppIdle
    /\ entry \in {"_postProcessText", "_convertToMarkdownLogic", "quickConvert",
                  "highAccuracyConvert", "_extractTextWithPdfJs", "llmRewrite"}
    /\ ruleIdx = 0 /\ rules = <<>> /\ cleanedText = <<>> /\ applied = <<>>
    /\ inputLines = <<>> /\ loopI = 0
    /\ markdownOutputLines = <<>> /\ currentParagraphCollector = <<>>
    /\ inPotentialTableBlock = FALSE /\ potentialTableBlockLines = <<>>
    /\ finalMarkdown = <<>>
    /\ blocks = <<>> /\ paraSrc = <<>> /\ tableSrc = <<>> /\ skipped = {}
    /\ pageTextBuffer = <<>> /\ fullText = <<>> /\ seps = <<>> /\ pageTexts = <<>>
    /\ promptTemplate = NoTemplate /\ prompt = <<>>
    /\ IF entry = "_extractTextWithPdfJs"
       THEN textContents \in Documents /\ pageNo = 1 /\ itemI = 1
       ELSE textContents = <<>> /\ pageNo = 0 /\ itemI = 0
    /\ IF entry = "llmRewrite"
       THEN /\ ctorPromptTemplate \in PromptTemplates("constructor")
            /\ callPromptTemplate \in PromptTemplates("call")
       ELSE ctorPromptTemplate = NoTemplate /\ callPromptTemplate = NoTemplate
    /\ CASE entry = "_postProcessText" ->
               /\ tpc = "pp_enter"
               /\ splitPascalCase \in BOOLEAN
               /\ customPostProcessRules \in CallerRuleLists("constructor")
               /\ additionalRules \in CallerRuleLists("call")
               /\ text \in NormInputs
               /\ rawText = <<>>
         [] entry = "_convertToMarkdownLogic" ->
               /\ tpc = "md_split"
               /\ splitPascalCase = FALSE
               /\ customPostProcessRules = <<>> /\ additionalRules = <<>>
               /\ text = <<>>
               /\ rawText \in ReconInputs \cup ReconScenarios
         [] entry = "_extractTextWithPdfJs" ->
               /\ tpc = "ex_items"
               /\ splitPascalCase = FALSE
               /\ customPostProcessRules = <<>> /\ additionalRules = <<>>
               /\ text = <<>> /\ rawText = <<>>
         [] entry = "llmRewrite" ->
               /\ tpc = "llm_enter"
               /\ splitPascalCase = FALSE
               /\ customPostProcessRules = <<>> /\ additionalRules = <<>>
               /\ text \in RewriteTexts /\ rawText = <<>>
         [] OTHER ->
               /\ tpc = "pp_enter"
               /\ rawText = <<>>
               /\ \/ /\ text \in PipelineInputs
                     /\ splitPascalCase = FALSE
                     /\ customPostProcessRules = <<>> /\ additionalRules = <<>>
                  \/ /\ text \in PipelineScenarios
                     /\ splitPascalCase \in BOOLEAN
                     /\ customPostProcessRules \in CallerRuleLists("constructor")
                     /\ additionalRules \in CallerRuleLists("call")

NextText ==
    \/ PpEnter \/ PpRule \/ PpReturn \/ QcCleanup \/ HaCleanup
    \/ MdSplit \/ MdLine \/ MdFinish
    \/ ExtractItem \/ ExtractPageEnd
    \/ LlmResolveTemplate \/ LlmBuildPrompt

SpecText == InitText /\ [][NextText]_vars

\* ======================================================== the demo page
\* src/components/PdfConverterClient.tsx.  The page owns one converter,
\* constructed without a model_lib URL (lines 24-35).  handleProcessPdf makes
\* its three library calls one after the other: highAccuracyConvert is call
\* 1, llmRewrite is call 2, and unloadLLM takes record 1 again once call 1 has
\* settled and its value has been stored in highAccuracyText.
MaxRuns == 2

Shown(v) == [shown |-> "text", value |-> v]
\* lines 116-117: `An error occurred: ${errorMessage}`
ErrorShown == [shown |-> "error", value |-> <<>>]
\* the value a settled call resolved with
ValueOf(c) == CHOOSE v \in result[c] : TRUE

\* the records of the calls are dropped when the handler returns
ReleaseCalls ==
    /\ kind' = [c \in Calls |-> "none"]
    /\ pc' = [c \in Calls |-> "idle"]
    /\ numPages' = [c \in Calls |-> 0]
    /\ pageNum' = [c \in Calls |-> 0]
    /\ acc' = [c \in Calls |-> <<>>]
    /\ worker' = [c \in Calls |-> NoHandle]
    /\ reqModel' = [c \in Calls |-> DEFAULT_LLM_MODEL]
    /\ oldEngine' = [c \in Calls |-> NoHandle]
    /\ newEngine' = [c \in Calls |-> NoHandle]
    /\ loadReports' = [c \in Calls |-> 0]
    /\ result' = [c \in Calls |-> {}]
    /\ log' = [c \in Calls |-> <<>>]
    /\ startEngine' = [c \in Calls |-> NoHandle]
    /\ startInit' = [c \in Calls |-> FALSE]
    /\ overlapped' = [c \in Calls |-> FALSE]

\* lines 21-45: the effect that constructs the converter has run; the
\* constructor either threw (converterRef.current stays null) or not
InitUI ==
    /\ OrchInit /\ chatModule = NoHandle /\ ~llmModelLibUrl
    /\ TextIdle
    /\ pdfFile = FALSE
    /\ converterInitialized \in BOOLEAN
    /\ isProcessing = FALSE
    /\ markdownOutput = NoOutput /\ highAccuracyText = <<>>
    /\ hpc = "idle" /\ alerted = "none" /\ runs = 0 /\ hlog = <<>>
    /\ InstallIdle

\* lines 47-60: a file is chosen, or the choice is cleared
handleFileChange ==
    /\ \E chosen \in BOOLEAN :
         IF chosen
         THEN pdfFile' = TRUE /\ markdownOutput' = NoOutput
         ELSE pdfFile' = FALSE /\ UNCHANGED markdownOutput
    /\ UNCHANGED <<orchVars, libTextVars, installVars, converterInitialized, isProcessing,
                   highAccuracyText, hpc, alerted, runs, hlog>>

\* lines 62-82: the guards, the reset of the page, the call of
\* highAccuracyConvert up to its first await.  Line 169 disables the button
\* while isProcessing, so one run is in flight at a time.
handleProcessPdf ==
    /\ hpc = "idle" /\ ~isProcessing
    /\ IF ~pdfFile
       THEN /\ alerted' = "select_file"
            /\ UNCHANGED <<orchVars, isProcessing, markdownOutput, hpc, runs, hlog>>
       ELSE IF ~converterInitialized
       THEN /\ alerted' = "not_initialized"
            /\ UNCHANGED <<orchVars, isProcessing, markdownOutput, hpc, runs, hlog>>
       ELSE /\ runs < MaxRuns
            /\ runs' = runs + 1
            /\ isProcessing' = TRUE
            /\ markdownOutput' = NoOutput
            /\ hpc' = "ocr"
            /\ hlog' = <<"highAccuracyConvert">>
            /\ Begin(1, "ocr")
            /\ OcrCall(1, TRUE)
            /\ UNCHANGED alerted
    /\ UNCHANGED <<libTextVars, installVars, pdfFile, converterInitialized, highAccuracyText>>

\* lines 80-88: highAccuracyConvert resolved; its text is kept and llmRewrite
\* is called for DEFAULT_LLM_MODEL, up to its first await.
\* lines 114-122: highAccuracyConvert rejected; catch, then finally.
AfterHighAccuracyConvert ==
    /\ hpc = "ocr" /\ pc[1] \in Done
    /\ IF pc[1] = "resolved"
       THEN /\ highAccuracyText' = ValueOf(1)
            /\ hlog' = hlog \o <<"resolved", "llmRewrite">>
            /\ hpc' = "rewrite"
            /\ Begin(2, "rewrite")
            /\ RewriteCall(2, DEFAULT_LLM_MODEL)
            /\ UNCHANGED <<isProcessing, markdownOutput>>
       ELSE /\ markdownOutput' = ErrorShown
            /\ isProcessing' = FALSE
            /\ hlog' = hlog \o <<"catch", "finally">>
            /\ hpc' = "idle"
            /\ ReleaseCalls
            /\ UNCHANGED <<instVars, extVars, highAccuracyText>>
    /\ UNCHANGED <<libTextVars, installVars, pdfFile, converterInitialized, alerted, runs>>

\* (mutation of AfterLlmRewrite: the fallback of the inner catch leaves the
\* handler, with the error shown, instead of going on to unloadLLM)
AfterLlmRewrite_FailureSkipsUnload ==
    /\ hpc = "rewrite" /\ pc[2] \in Done
    /\ IF pc[2] = "resolved"
       THEN /\ markdownOutput' = Shown(ValueOf(2))
            /\ hlog' = hlog \o <<"unloadLLM">>
            /\ hpc' = "unload"
            /\ kind' = [kind EXCEPT ![1] = "unload"]
            /\ UnloadCall(1)
            /\ UNCHANGED <<histVars, isProcessing>>
       ELSE /\ markdownOutput' = ErrorShown
            /\ isProcessing' = FALSE
            /\ hlog' = hlog \o <<"catch", "finally">>
            /\ hpc' = "idle"
            /\ ReleaseCalls
            /\ UNCHANGED <<instVars, extVars>>
    /\ UNCHANGED <<libTextVars, installVars, pdfFile, converterInitialized, highAccuracyText,
                   alerted, runs>>

\* lines 88-106: llmRewrite settled.  Its text is shown, or (inner catch,
\* lines 98-103) the text of highAccuracyConvert; then unloadLLM is called,
\* up to its first await.
AfterLlmRewrite ==
    /\ hpc = "rewrite" /\ pc[2] \in Done
    /\ IF pc[2] = "resolved"
       THEN /\ markdownOutput' = Shown(ValueOf(2))
            /\ hlog' = hlog \o <<"unloadLLM">>
       ELSE /\ markdownOutput' = Shown(highAccuracyText)
            /\ hlog' = hlog \o <<"inner_catch", "unloadLLM">>
    /\ hpc' = "unload"
    /\ kind' = [kind EXCEPT ![1] = "unload"]
    /\ UnloadCall(1)
    /\ UNCHANGED <<libTextVars, installVars, histVars, pdfFile, converterInitialized, isProcessing,
                   highAccuracyText, alerted, runs>>

\* lines 106-123: unloadLLM settled; finally.  (The timer of lines 109-112
\* only changes the status messages.)
AfterUnloadLLM ==
    /\ hpc = "unload" /\ kind[1] = "unload" /\ pc[1] \in Done
    /\ IF pc[1] = "rejected"
       THEN /\ markdownOutput' = ErrorShown
            /\ hlog' = hlog \o <<"catch", "finally">>
       ELSE /\ hlog' = hlog \o <<"finally">>
            /\ UNCHANGED markdownOutput
    /\ isProcessing' = FALSE
    /\ hpc' = "idle"
    /\ ReleaseCalls
    /\ UNCHANGED <<libTextVars, installVars, instVars, extVars, pdfFile, converterInitialized,
                   highAccuracyText, alerted, runs>>

\* the page's handlers, and the library's calls resuming from their awaits
NextUI ==
    \/ handleFileChange \/ handleProcessPdf
    \/ AfterHighAccuracyConvert \/ AfterLlmRewrite \/ AfterUnloadLLM
    \/ OcrWorkerCreated(1) \/ OcrWorkerFailed(1) \/ OcrBuffer(1) \/ OcrOpen(1)
    \/ OcrGetPage(1) \/ OcrRendered(1) \/ OcrRecognized(1) \/ OcrTerminated(1)
    \/ UncaughtReject(1)
    \/ LlmLoadProgress(2) \/ RewriteCreated(2) \/ RewriteReloaded(2)
    \/ RewriteInitFailed(2) \/ RewriteAfterInit(2) \/ RewriteGenerated(2)
    \/ RewriteGenerateFailed(2)
    \/ UnloadDone(1)

SpecUI == InitUI /\ [][NextUI]_vars

\* ================================================== the postinstall script
\* src/Extract2MD/scripts/postinstall.js.  A file is "absent", or holds
\* "gz" (the gzip-compressed data), "raw" (the uncompressed data), or
\* "partial" (a stream was opened on it and did not finish).
MaxInstallRuns == 2
\* line 42
MAX_REDIRECTS == 5

\* lines 15 and 21: what the file's URL serves
Served(f) == IF f.gzipped THEN "gz" ELSE "raw"
\* the responses a server can give: status code, and whether a Location
\* header came with it
StatusCodes == {200, 302, 404, 500}
Responses == [statusCode : StatusCodes, location : BOOLEAN]
\* line 58
IsRedirect(response) ==
    response.statusCode >= 300 /\ response.statusCode < 400 /\ response.location

\* (mutation of ExceedsRedirects: one more redirect is followed)
ExceedsRedirects_OneMore(count) == count > MAX_REDIRECTS + 1
\* line 45
ExceedsRedirects(count) == count > MAX_REDIRECTS

\* fs.existsSync
Exists(d, path) == d[path] # "absent"
\* line 112
IsSameFile(sourcePath, destPath) == sourcePath = destPath
\* line 114
OutputPath(sourcePath, destPath) ==
    IF IsSameFile(sourcePath, destPath) THEN TempOutputPath(destPath) ELSE destPath

DownloadedFilePath(k) == FilePath(filesToDownload[k].fileName)
FinalDestPath(k) == FilePath(filesToDownload[k].destFileName)

\* lines 110-122: decompressGzip is called; createWriteStream opens its output
DecompressCalled(k, d) ==
    [d EXCEPT ![OutputPath(DownloadedFilePath(k), FinalDestPath(k))] = "partial"]

\* lines 172-195: the loop of main() from file k on, with the directory as d,
\* up to its next await: files whose destination exists are skipped; a
\* gzipped file whose intermediate download exists goes to decompressGzip;
\* any other file goes to downloadFile, which issues its first request.
RECURSIVE LoopFrom(_, _, _)
LoopFrom(k, d, sk) ==
    IF k > Len(filesToDownload)
    THEN [mpc |-> "idle", fileIdx |-> 0, disk |-> d, skips |-> sk, called |-> FALSE]
    ELSE IF Exists(d, FinalDestPath(k))
    THEN LoopFrom(k + 1, d, sk \cup {<<k, d[FinalDestPath(k)]>>})
    ELSE IF filesToDownload[k].gzipped /\ Exists(d, DownloadedFilePath(k))
    THEN [mpc |-> "decompress", fileIdx |-> k, disk |-> DecompressCalled(k, d),
          skips |-> sk, called |-> FALSE]
    ELSE [mpc |-> "response", fileIdx |-> k, disk |-> d, skips |-> sk, called |-> TRUE]

\* main() goes on as r says; `settled` is how the last downloadFile ended
Continue(r, settled) ==
    /\ mpc' = r.mpc /\ fileIdx' = r.fileIdx /\ disk' = r.disk /\ skips' = r.skips
    /\ exit' = IF r.mpc = "idle" THEN "completed" ELSE "running"
    /\ IF r.called
       THEN /\ redirectCount' = 0 /\ requests' = 1 /\ received' = <<>>
            /\ outcome' = "pending"
       ELSE /\ outcome' = settled
            /\ UNCHANGED <<redirectCount, requests, received>>

\* lines 215-218: a rejection reaches the catch of main(); the run is over
Fail ==
    /\ mpc' = "idle" /\ exit' = "error"
    /\ UNCHANGED <<fileIdx, installRuns, skips>>

InitInstall ==
    /\ OrchInit /\ caps = "none" /\ ~llmModelLibUrl /\ chatModule = NoHandle
    /\ TextIdle /\ AppIdle

\* lines 167-186: the script is run
main ==
    /\ mpc = "idle" /\ installRuns < MaxInstallRuns
    /\ installRuns' = installRuns + 1
    /\ Continue(LoopFrom(1, disk, {}), outcome)
    /\ UNCHANGED <<orchVars, libTextVars, uiVars>>

\* lines 57-75, and 41-55 for a redirect: a response arrives
Respond ==
    /\ mpc = "response"
    /\ \E response \in Responses :
         /\ received' = Append(received, response)
         /\ IF IsRedirect(response)
            THEN IF ExceedsRedirects(redirectCount + 1)
                 THEN /\ outcome' = "redirect_limit"
                      /\ redirectCount' = redirectCount + 1
                      /\ Fail
                      /\ UNCHANGED <<disk, requests>>
                 ELSE /\ redirectCount' = redirectCount + 1
                      /\ requests' = requests + 1
                      /\ UNCHANGED <<disk, mpc, fileIdx, outcome, installRuns, skips, exit>>
            ELSE IF response.statusCode # 200
            THEN /\ outcome' = "bad_status"
                 /\ Fail
                 /\ UNCHANGED <<disk, redirectCount, requests>>
            ELSE /\ disk' = [disk EXCEPT
                               ![TempFilePath(filesToDownload[fileIdx].fileName)] = "partial"]
                 /\ mpc' = "streaming"
                 /\ UNCHANGED <<fileIdx, redirectCount, requests, outcome, installRuns,
                                skips, exit>>
    /\ UNCHANGED <<orchVars, libTextVars, uiVars>>

\* lines 103-106: the request itself failed
RequestError ==
    /\ mpc = "response"
    /\ outcome' = "request_error"
    /\ Fail
    /\ UNCHANGED <<orchVars, libTextVars, uiVars, disk, redirectCount, requests, received>>

\* lines 77-87: the body has been written to the temporary name
StreamFinished ==
    /\ mpc = "streaming"
    /\ disk' = [disk EXCEPT ![TempFilePath(filesToDownload[fileIdx].fileName)] =
                               Served(filesToDownload[fileIdx])]
    /\ mpc' = "dl_rename"
    /\ UNCHANGED <<orchVars, libTextVars, uiVars, fileIdx, redirectCount, requests,
                   received, outcome, installRuns, skips, exit>>

\* lines 78-83, 90-93 and 97-100: writing, closing or renaming failed; the
\* temporary file is unlinked, or the clean-up fails too
DownloadFailed ==
    /\ mpc \in {"streaming", "dl_rename"}
    /\ \E left \in {"absent", disk[TempFilePath(filesToDownload[fileIdx].fileName)]} :
         disk' = [disk EXCEPT ![TempFilePath(filesToDownload[fileIdx].fileName)] = left]
    /\ outcome' = "write_error"
    /\ Fail
    /\ UNCHANGED <<orchVars, libTextVars, uiVars, redirectCount, requests, received>>

\* lines 87-89: the download is renamed to downloadedFilePath and
\* downloadFile resolves; lines 189-211: main() calls decompressGzip, or
\* renames the file to its destination, or goes on with the next file
DownloadRenamed ==
    /\ mpc = "dl_rename"
    /\ LET k == fileIdx
           name == filesToDownload[k].fileName
           d == [disk EXCEPT ![DownloadedFilePath(k)] = disk[TempFilePath(name)],
                             ![TempFilePath(name)] = "absent"]
       IN  IF filesToDownload[k].gzipped
           THEN /\ disk' = DecompressCalled(k, d)
                /\ mpc' = "decompress" /\ outcome' = "resolved"
                /\ UNCHANGED <<fileIdx, redirectCount, requests, received, skips, exit>>
           ELSE IF DownloadedFilePath(k) # FinalDestPath(k)
           THEN /\ disk' = d
                /\ mpc' = "plain_rename" /\ outcome' = "resolved"
                /\ UNCHANGED <<fileIdx, redirectCount, requests, received, skips, exit>>
           ELSE Continue(LoopFrom(k + 1, d, skips), "resolved")
    /\ UNCHANGED <<orchVars, libTextVars, uiVars, installRuns>>

\* lines 118-125: the decompressed data has been written to the output
Decompressed ==
    /\ mpc = "decompress"
    /\ disk[DownloadedFilePath(fileIdx)] = "gz"
    /\ disk' = [disk EXCEPT
                  ![OutputPath(DownloadedFilePath(fileIdx), FinalDestPath(fileIdx))] = "raw"]
    /\ mpc' = "finalize"
    /\ UNCHANGED <<orchVars, libTextVars, uiVars, fileIdx, redirectCount, requests,
                   received, outcome, installRuns, skips, exit>>

\* lines 126-133, 146-152 and 156-163: reading, inflating, writing or
\* finalizing failed; the source is left as it was, the output is unlinked
\* or left behind
DecompressFailed ==
    /\ mpc \in {"decompress", "finalize"}
    /\ LET out == OutputPath(DownloadedFilePath(fileIdx), FinalDestPath(fileIdx))
       IN  \E left \in {"absent", disk[out]} : disk' = [disk EXCEPT ![out] = left]
    /\ Fail
    /\ UNCHANGED <<orchVars, libTextVars, uiVars, redirectCount, requests, received,
                   outcome>>

\* lines 134-145: the output replaces the source (same path), or the source
\* is removed; then main() goes on with the next file
DecompressFinalized ==
    /\ mpc = "finalize"
    /\ LET src == DownloadedFilePath(fileIdx)
           dst == FinalDestPath(fileIdx)
           d == IF IsSameFile(src, dst)
                THEN [disk EXCEPT ![dst] = disk[TempOutputPath(dst)],
                                  ![TempOutputPath(dst)] = "absent"]
                ELSE [disk EXCEPT ![src] = "absent"]
       IN  Continue(LoopFrom(fileIdx + 1, d, skips), outcome)
    /\ UNCHANGED <<orchVars, libTextVars, uiVars, installRuns>>

\* lines 199-203: the plain file has been renamed to its destination; then
\* main() goes on with the next file
PlainRenamed ==
    /\ mpc = "plain_rename"
    /\ LET d == [disk EXCEPT ![FinalDestPath(fileIdx)] = disk[DownloadedFilePath(fileIdx)],
                             ![DownloadedFilePath(fileIdx)] = "absent"]
       IN  Continue(LoopFrom(fileIdx + 1, d, skips), outcome)
    /\ UNCHANGED <<orchVars, libTextVars, uiVars, installRuns>>

\* the process is stopped while main() is suspended
Interrupted ==
    /\ mpc # "idle"
    /\ mpc' = "idle" /\ exit' = "killed"
    /\ UNCHANGED <<orchVars, libTextVars, uiVars, disk, fileIdx, redirectCount, requests,
                   received, outcome, installRuns, skips>>

NextInstall ==
    \/ main \/ Respond \/ RequestError \/ StreamFinished \/ DownloadFailed
    \/ DownloadRenamed \/ Decompressed \/ DecompressFailed \/ DecompressFinalized
    \/ PlainRenamed \/ Interrupted

SpecInstall == InitInstall /\ [][NextInstall]_vars

\* ================================================================ claims
\* ------------------------------------------------------- reading the logs
Has(c, e, n) == \E i \in DOMAIN log[c] : log[c][i].ev = e /\ log[c][i].name = n
Count(c, e, n) == Cardinality({i \in DOMAIN log[c] : log[c][i].ev = e /\ log[c][i].name = n})
FirstIndex(c, e, n) ==
    CHOOSE i \in DOMAIN log[c] :
        /\ log[c][i].ev = e /\ log[c][i].name = n
        /\ \A j \in 1..(i - 1) : ~(log[c][j].ev = e /\ log[c][j].name = n)
\* every occurrence of event (e2, n2) comes after an occurrence of (e1, n1)
Precedes(c, e1, n1, e2, n2) ==
    \A i \in DOMAIN log[c] :
        (log[c][i].ev = e2 /\ log[c][i].name = n2)
            => \E j \in 1..(i - 1) : log[c][j].ev = e1 /\ log[c][j].name = n1
CreationCalls(c) == Count(c, "call", "CreateMLCEngine") + Count(c, "call", "reload")
InitCompleted(c) == Has(c, "done", "CreateMLCEngine") \/ Has(c, "done", "reload")
ErrorReports(c) == {i \in DOMAIN log[c] : log[c][i].ev = "report" /\ log[c][i].error}

\* the engine was Ready for the call's model when the call was made
ReadyForSameModelAtStart(c) ==
    /\ kind[c] = "rewrite" /\ caps # "none"
    /\ startInit[c] /\ startEngine[c] # NoHandle
    /\ engModel[startEngine[c]] = reqModel[c]
\* the engine was Ready for another model when the call was made
ReadyForOtherModelAtStart(c) ==
    /\ kind[c] = "rewrite" /\ caps # "none"
    /\ startInit[c] /\ startEngine[c] # NoHandle
    /\ engModel[startEngine[c]] # reqModel[c]
\* no call has run while another was in flight
AllSequential == \A d \in Calls : ~overlapped[d]
LastStarted(c) == kind[c] # "none" /\ \A d \in Calls : d > c => kind[d] = "none"

\* C1: an llmRewrite made while the engine is Ready for the same modelId
\* issues no engine-creation call (and no unload); and when two llmRewrite
\* calls for one model follow one another (nothing in between, no other call
\* in flight) on an instance without engine and the first one's
\* initialization succeeded, exactly one creation call was issued by the two
\* together.
C1_SameModelInitializesOnce ==
    /\ \A c \in Calls :
         ReadyForSameModelAtStart(c)
            => /\ CreationCalls(c) = 0
               /\ ~Has(c, "call", "unload")
               /\ newEngine[c] = NoHandle
               /\ Has(c, "report", "llm_ready")
    /\ \A c, d \in Calls :
         ( /\ d = c + 1 /\ kind[c] = "rewrite" /\ kind[d] = "rewrite"
           /\ reqModel[c] = reqModel[d] /\ ~overlapped[c] /\ ~overlapped[d]
           /\ startEngine[c] = NoHandle /\ InitCompleted(c) )
            => CreationCalls(c) + CreationCalls(d) = 1

C1_Witness ==
    \E c, d \in Calls :
        /\ d = c + 1 /\ kind[c] = "rewrite" /\ kind[d] = "rewrite"
        /\ reqModel[c] = reqModel[d] /\ ~overlapped[c] /\ ~overlapped[d]
        /\ startEngine[c] = NoHandle /\ InitCompleted(c)
        /\ ReadyForSameModelAtStart(d)
        /\ pc[d] = "resolved"

\* C2: an llmRewrite made while the engine is Ready for a different modelId
\* invokes the old engine's unload at once; every creation call it issues
\* comes after that unload completed, when the old engine is no longer live;
\* and once its initialization has completed (no other call interleaving)
\* the instance's engine is the one it created, for the new modelId.
C2_SwitchUnloadsThenCreates ==
    \A c \in Calls :
        ReadyForOtherModelAtStart(c)
            => /\ Has(c, "call", "unload")
               /\ oldEngine[c] = startEngine[c]
               /\ Precedes(c, "done", "unload", "call", "CreateMLCEngine")
               /\ Precedes(c, "done", "unload", "call", "reload")
               /\ CreationCalls(c) > 0 => oldEngine[c] \notin liveLLM
               /\ (pc[c] \in {"r_inited", "r_generate"} /\ ~overlapped[c])
                    => /\ newEngine[c] # NoHandle /\ newEngine[c] # oldEngine[c]
                       /\ chatModule = newEngine[c]
                       /\ engModel[chatModule] = reqModel[c]
                       /\ llmInitialized
                       /\ chatModule \in liveLLM

C2_Witness ==
    \E c \in Calls :
        /\ ReadyForOtherModelAtStart(c) /\ ~overlapped[c]
        /\ pc[c] = "r_generate"
        /\ chatModule = newEngine[c]

\* C3: when calls follow one another, a completed unloadLLM leaves the
\* instance with no engine handle, not initialized and its engine unloaded;
\* an llmRewrite made while no Ready engine is held issues its generate call
\* only after its own initialization completed; a call whose initialization
\* failed issues no generate call; and a generate call is outstanding (no
\* other call interleaving) only on a live, initialized engine for the
\* requested model.
C3_UnloadedNeedsFreshInit ==
    \A c \in Calls :
        /\ (kind[c] = "unload" /\ pc[c] = "resolved" /\ LastStarted(c) /\ AllSequential)
              => /\ chatModule = NoHandle /\ ~llmInitialized
                 /\ oldEngine[c] \notin liveLLM
        /\ (kind[c] = "rewrite" /\ Has(c, "call", "generate"))
              => /\ ~Has(c, "report", "llm_init_error")
                 /\ (startEngine[c] = NoHandle \/ ~startInit[c])
                       => /\ InitCompleted(c)
                          /\ Precedes(c, "done", "CreateMLCEngine", "call", "generate")
                             \/ Precedes(c, "done", "reload", "call", "generate")
        /\ (kind[c] = "rewrite" /\ pc[c] = "r_generate" /\ ~overlapped[c])
              => /\ llmInitialized /\ chatModule # NoHandle
                 /\ chatModule \in liveLLM
                 /\ engModel[chatModule] = reqModel[c]

C3_Witness ==
    \E c, d \in Calls :
        /\ c < d /\ AllSequential
        /\ kind[c] = "unload" /\ Has(c, "done", "unload")
        /\ kind[d] = "rewrite" /\ startEngine[d] = NoHandle
        /\ pc[d] = "r_generate" /\ InitCompleted(d)

\* C4: an unloadLLM made while no engine handle is held completes at once,
\* calls no engine, emits no report and changes neither the lifecycle fields
\* nor the engines; a completing unloadLLM leaves no handle, so that (calls
\* following one another) a second unloadLLM is such a call and the state
\* after it is the state after the first.
C4_UnloadIdempotent ==
    [][ \A c \in Calls :
          /\ (kind[c] = "none" /\ kind'[c] = "unload" /\ chatModule = NoHandle)
                => /\ pc'[c] = "resolved"
                   /\ log'[c] = <<Return>>
                   /\ UNCHANGED <<instVars, extVars>>
          /\ (kind[c] = "unload" /\ pc[c] = "u_unload" /\ pc'[c] = "resolved")
                => chatModule' = NoHandle
          /\ (kind[c] = "none" /\ kind'[c] = "unload" /\ AllSequential' /\ c > 1
              /\ kind[c - 1] = "unload")
                => UNCHANGED <<instVars, extVars>> ]_vars

C4_Witness ==
    \E c, d \in Calls :
        /\ c < d /\ AllSequential
        /\ kind[c] = "unload" /\ Has(c, "done", "unload")
        /\ kind[d] = "unload" /\ pc[d] = "resolved"
        /\ chatModule = NoHandle /\ ~llmInitialized

\* C5 as stated: an llmRewrite for a model other than the default one, on an
\* instance without a model_lib override, never resolves and issues no
\* engine-creation call.
C5_NoLibFailsFast_AsStated ==
    \A c \in Calls :
        (kind[c] = "rewrite" /\ reqModel[c] # DEFAULT_LLM_MODEL /\ ~llmModelLibUrl)
            => /\ pc[c] # "resolved"
               /\ CreationCalls(c) = 0

\* C5 amended: unless the instance runs on the Chat-constructor fallback, an
\* llmRewrite for a model other than the default one, on an instance without
\* a model_lib override, never resolves and issues no engine-creation call;
\* it is rejected at once or as soon as the old engine is unloaded, and with
\* CreateMLCEngine present the rejection follows one llm_init_error report.
C5_NoLibFailsFast ==
    \A c \in Calls :
        ( /\ kind[c] = "rewrite" /\ reqModel[c] # DEFAULT_LLM_MODEL
          /\ ~llmModelLibUrl /\ caps # "chat" )
            => /\ pc[c] \in {"r_unload", "rejected"}
               /\ CreationCalls(c) = 0
               /\ newEngine[c] = NoHandle
               /\ (pc[c] = "rejected" /\ caps = "engine")
                    => /\ Len(log[c]) >= 2
                       /\ log[c][Len(log[c]) - 1] = ErrorReport("llm_init_error")
                       /\ log[c][Len(log[c])] = Throw("llm_init_failed")
                       /\ Cardinality(ErrorReports(c)) = 1

C5_Witness ==
    \E c \in Calls :
        /\ kind[c] = "rewrite" /\ reqModel[c] # DEFAULT_LLM_MODEL
        /\ ~llmModelLibUrl /\ caps = "engine"
        /\ Has(c, "done", "unload")
        /\ pc[c] = "rejected"

\* C6 as stated: no highAccuracyConvert ends, resolved or rejected, with the
\* OCR worker it created still live.
C6_WorkerReleasedOnEveryExit ==
    \A c \in Calls :
        (kind[c] = "ocr" /\ pc[c] \in Done /\ worker[c] # NoHandle)
            => worker[c] \notin liveOCR

\* the creation of the OCR worker was requested, failed, and the call is over
WorkerCreationFailed(c) ==
    /\ kind[c] = "ocr" /\ pc[c] \in Done
    /\ Has(c, "call", "createWorker") /\ ~Has(c, "done", "createWorker")

\* C7: when the creation of the OCR worker fails, the conversion is rejected
\* without opening the document, without any per-page report or page
\* operation and without a result; exactly one report carries an error, and
\* it is the event right before the throw.
C7_WorkerInitFailureAborts ==
    \A c \in Calls :
        WorkerCreationFailed(c)
            => /\ pc[c] = "rejected" /\ result[c] = {}
               /\ worker[c] = NoHandle /\ numPages[c] = 0 /\ acc[c] = <<>>
               /\ \A i \in DOMAIN log[c] :
                     /\ log[c][i].currentPage = 0
                     /\ log[c][i].ev = "call" => log[c][i].name = "createWorker"
               /\ Cardinality(ErrorReports(c)) = 1
               /\ log[c][Len(log[c]) - 1] = ErrorReport("ocr_worker_error")
               /\ log[c][Len(log[c])] = Throw("worker_init_failed")

C7_Witness ==
    \E c \in Calls : WorkerCreationFailed(c) /\ pc[c] = "rejected"

\* C8 as stated: every rejected call emitted exactly one report carrying an
\* error, right before the error was thrown.
C8_EveryFailureReportedOnce ==
    \A c \in Calls :
        pc[c] = "rejected"
            => /\ Cardinality(ErrorReports(c)) = 1
               /\ Len(log[c]) >= 2
               /\ log[c][Len(log[c]) - 1].ev = "report"
               /\ log[c][Len(log[c]) - 1].error

AllPages(n) == [i \in 1..n |-> i]
IsConversion(c) == kind[c] \in {"quick", "ocr"}
CompleteStage(c) == IF kind[c] = "quick" THEN "complete_quick" ELSE "complete_ocr"
PageStage(c) == IF kind[c] = "quick" THEN "pdfjs_page" ELSE "ocr_recognize_page"

\* C9: a conversion delivers a value only by resolving, and then the value
\* holds every page of the document, each page was reported, and the
\* 'complete' report is the last report before the return; a conversion that
\* has not resolved (in flight, or rejected) has delivered nothing.
C9_NoPartialMarkdown ==
    \A c \in Calls :
        IsConversion(c)
            => /\ pc[c] = "resolved"
                    => /\ numPages[c] >= 1
                       /\ result[c] = {AllPages(numPages[c])}
                       /\ \A p \in 1..numPages[c] :
                             \E i \in DOMAIN log[c] :
                                 log[c][i] = PageReport(PageStage(c), p, numPages[c])
                       /\ log[c][Len(log[c]) - 1] = Stage(CompleteStage(c))
                       /\ log[c][Len(log[c])] = Return
               /\ pc[c] # "resolved"
                    => /\ result[c] = {}
                       /\ ~Has(c, "return", "")

C9_Witness ==
    \E c, d \in Calls :
        /\ kind[c] = "ocr" /\ pc[c] = "resolved" /\ numPages[c] = MaxPages
        /\ kind[d] = "ocr" /\ pc[d] = "rejected" /\ Len(acc[d]) >= 1
        /\ result[d] = {}

\* C10 as stated: at every moment at most one OCR worker and at most one
\* generative engine created by the instance is live.
C10_AtMostOneLiveHandle ==
    /\ Cardinality(liveOCR) <= 1
    /\ Cardinality(liveLLM) <= 1

\* ------------------------------------------------------------------- C11
IsPrefix(s, t) == Len(s) <= Len(t) /\ \A i \in 1..Len(s) : s[i] = t[i]
IsProgress(e) == e.ev = "report" /\ ~e.error
ProgressReports(c) == SelectSeq(log[c], IsProgress)

\* the pipeline order of section 4.3 for a document of n pages
QuickPipeline(n) ==
    <<Stage("start_quick"), Stage("pdfjs_load")>>
    \o [p \in 1..n |-> PageReport("pdfjs_page", p, n)]
    \o <<Stage("pdfjs_extract_complete"), Stage("postprocess_quick"),
         Stage("markdown_quick"), Stage("complete_quick")>>
OcrPipeline(n) ==
    <<Stage("start_ocr"), Stage("ocr_worker_init")>>
    \o [j \in 1..(2 * n) |->
          IF j % 2 = 1 THEN PageReport("ocr_render_page", (j + 1) \div 2, n)
          ELSE PageReport("ocr_recognize_page", j \div 2, n)]
    \o <<Stage("ocr_terminate_worker"), Stage("postprocess_ocr"),
         Stage("markdown_ocr"), Stage("complete_ocr")>>
Pipeline(c, n) == IF kind[c] = "quick" THEN QuickPipeline(n) ELSE OcrPipeline(n)
PagesOf(c, stage) ==
    LET IsStage(e) == e.name = stage
        sel == SelectSeq(ProgressReports(c), IsStage)
    IN  [i \in 1..Len(sel) |-> sel[i].currentPage]

\* C11: at every moment of a conversion the progress reports made so far are
\* an initial part of the pipeline's order (start, load, the pages 1..total
\* one after another, then the later stages); each per-page stage has
\* reported the pages 1, 2, ... in increasing order without a gap or a
\* repetition, and a resolved conversion has made every report of the order.
C11_ReportsInPipelineOrder ==
    \A c \in Calls :
        IsConversion(c)
            => /\ \E n \in 1..MaxPages :
                     /\ numPages[c] # 0 => n = numPages[c]
                     /\ IsPrefix(ProgressReports(c), Pipeline(c, n))
               /\ \A stage \in {"pdfjs_page", "ocr_render_page", "ocr_recognize_page"} :
                     /\ PagesOf(c, stage) = AllPages(Len(PagesOf(c, stage)))
                     /\ Len(PagesOf(c, stage)) <= numPages[c]
               /\ pc[c] = "resolved"
                     => ProgressReports(c) = Pipeline(c, numPages[c])

C11_Witness ==
    \E c, d \in Calls :
        /\ kind[c] = "quick" /\ pc[c] = "resolved" /\ numPages[c] = MaxPages
        /\ kind[d] = "ocr" /\ pc[d] = "resolved" /\ numPages[d] = MaxPages
        /\ overlapped[c]

\* ------------------------------------------------------ C12 .. C18 helpers
\* _convertToMarkdownLogic has returned (called directly or by a conversion)
ReconDone ==
    tpc = "done" /\ entry \in {"_convertToMarkdownLogic", "quickConvert", "highAccuracyConvert"}
IsBlankLine(k) == Trim(inputLines[k]) = <<>>
\* the blocks that carry input line k
BlocksOf(k) == {b \in 1..Len(blocks) : \E j \in 1..Len(blocks[b].src) : blocks[b].src[j] = k}
\* the line holds two tokens separated by two or more spaces
HasColumnPair(l) ==
    \E a \in 1..Len(l) : \E b \in (a + 3)..Len(l) :
        /\ l[a] # " " /\ l[b] # " "
        /\ \A j \in (a + 1)..(b - 1) : l[j] = " "
HasLower(t) == \E k \in 1..Len(t) : t[k] \in Lower
HasUpper(t) == \E k \in 1..Len(t) : t[k] \in Upper
IsHeadingBlock(k) == \E b \in BlocksOf(k) : blocks[b].kind = "heading"

\* C12 as stated: the conversion of the end-to-end text of section 8 leaves
\* the line structure unchanged in normalization and yields the heading
\* TOTAL DUE, the paragraph 'Please pay within 30 days.' and a paragraph for
\* the Amount line.
C12_EndToEndScenario ==
    (/\ entry = "quickConvert" /\ text = EndToEndText /\ tpc = "done"
     /\ ~splitPascalCase /\ customPostProcessRules = <<>> /\ additionalRules = <<>>)
        => /\ Len(SplitLines(rawText)) = Len(SplitLines(Trim(text)))
           /\ Len(blocks) = 3
           /\ blocks[1].kind = "heading"
           /\ blocks[1].content = <<SubSeq(EndToEndText, 1, 9)>>
           /\ blocks[2].kind = "paragraph"
           /\ blocks[2].content =
                 << <<"P", "l", "e", "a", "s", "e", " ", "p", "a", "y", " ", "w", "i",
                      "t", "h", "i", "n", " ", "3", "0", " ", "d", "a", "y", "s", ".">> >>
           /\ blocks[3].kind = "paragraph"

\* C13 as stated: two consecutive lines that each hold a pair of columns
\* separated by two or more spaces (and no such line next to them) come out
\* as exactly one fenced block holding exactly those two lines; neither line
\* is in a heading or a paragraph.
C13_TwoColumnLinesFenced ==
    ReconDone =>
        \A k \in 1..(Len(inputLines) - 1) :
            ( /\ HasColumnPair(inputLines[k]) /\ HasColumnPair(inputLines[k + 1])
              /\ k = 1 \/ ~HasColumnPair(inputLines[k - 1])
              /\ k + 1 = Len(inputLines) \/ ~HasColumnPair(inputLines[k + 2]) )
            => \E b \in 1..Len(blocks) :
                  /\ blocks[b].kind = "fenced"
                  /\ blocks[b].src = <<k, k + 1>>
                  /\ blocks[b].content = <<TrimEnd(inputLines[k]), TrimEnd(inputLines[k + 1])>>
                  /\ BlocksOf(k) = {b} /\ BlocksOf(k + 1) = {b}

\* C14 as stated: a line that holds a pair of columns separated by two or
\* more spaces, with a blank line or the boundary of the input on both
\* sides, comes out as one plain paragraph: not fenced, not a heading.
C14_IsolatedColumnLineIsParagraph ==
    ReconDone =>
        \A k \in 1..Len(inputLines) :
            ( /\ HasColumnPair(inputLines[k])
              /\ k = 1 \/ IsBlankLine(k - 1)
              /\ k = Len(inputLines) \/ IsBlankLine(k + 1) )
            => \E b \in 1..Len(blocks) :
                  /\ BlocksOf(k) = {b}
                  /\ blocks[b].kind = "paragraph"

\* the first non-blank line after line k, or 0
NextNonBlank(k) ==
    LET later == {m \in (k + 1)..Len(inputLines) : ~IsBlankLine(m)}
    IN  IF later = {} THEN 0 ELSE Min(later)

\* C15: when a line is made a heading and the next line is blank, the line
\* is carried by exactly one block, the heading; the blank line is carried by
\* no block and adds no separator: the heading and its one empty separator
\* are followed at once by the next block; and the next non-blank line is
\* the first line of a new block.
C15_HeadingConsumesBlankLine ==
    ReconDone =>
        \A k \in 1..(Len(inputLines) - 1) :
            (IsHeadingBlock(k) /\ IsBlankLine(k + 1))
            => /\ \E b \in 1..Len(blocks) :
                     /\ BlocksOf(k) = {b}
                     /\ blocks[b].kind = "heading"
                     /\ blocks[b].content = <<Trim(inputLines[k])>>
                     /\ markdownOutputLines[blocks[b].at] = <<"#", " ">> \o Trim(inputLines[k])
                     /\ markdownOutputLines[blocks[b].at + 1] = <<>>
                     /\ b < Len(blocks) => blocks[b + 1].at = blocks[b].at + 2
                     /\ b = Len(blocks) => Len(markdownOutputLines) = blocks[b].at + 1
                     /\ NextNonBlank(k) # 0
                           => /\ b < Len(blocks)
                              /\ blocks[b + 1].src[1] = NextNonBlank(k)
                     /\ NextNonBlank(k) = 0 => b = Len(blocks)
               /\ BlocksOf(k + 1) = {}

C15_Witness ==
    /\ ReconDone /\ rawText = InvoiceText
    /\ IsHeadingBlock(1) /\ inputLines[2] = <<>> /\ 2 \notin skipped
    /\ Len(blocks) = 2 /\ blocks[2].src = <<3>>

\* C16: a line that is not all-caps (it has a lowercase letter, or no
\* uppercase letter) and ends in one of . , ; : ! ? is never made a heading,
\* whatever follows it.
C16_PunctuatedLineNeverHeading ==
    ReconDone =>
        \A k \in 1..Len(inputLines) :
            LET t == Trim(inputLines[k])
            IN  ( /\ t # <<>>
                  /\ HasLower(t) \/ ~HasUpper(t)
                  /\ t[Len(t)] \in {".", ",", ";", ":", "!", "?"} )
                => ~IsHeadingBlock(k)

C16_Witness ==
    /\ ReconDone /\ rawText = PageFooter
    /\ Len(blocks) = 1 /\ blocks[1].kind = "paragraph" /\ blocks[1].content = <<PageFooter>>

\* C17: the returned Markdown has no two consecutive blank lines and no
\* white space at its start or end; two paragraphs separated by five blank
\* lines come out separated by exactly one blank line.
C17_NoBlankRunsNoOuterSpace ==
    ReconDone =>
        /\ Trim(finalMarkdown) = finalMarkdown
        /\ \A k \in 1..(Len(SplitLines(finalMarkdown)) - 1) :
              ~( /\ Trim(SplitLines(finalMarkdown)[k]) = <<>>
                 /\ Trim(SplitLines(finalMarkdown)[k + 1]) = <<>> )
        /\ rawText = FiveBlankLines
              => finalMarkdown = <<"a", "b", ".", LF, LF, "c", "d", ".">>

C17_Witness ==
    /\ ReconDone /\ rawText = FiveBlankLines
    /\ Len(blocks) = 2
    /\ finalMarkdown = <<"a", "b", ".", LF, LF, "c", "d", ".">>

HasInk(s) == \E k \in 1..Len(s) : s[k] \notin WhiteSpace

IsOrdered(rank) ==
    \A j, k \in DOMAIN applied : j < k => rank[applied[j]] <= rank[applied[k]]

\* C19 as stated: the rules run in the order built-in, constructor-level,
\* call-level, splitting.
C19_SplitAfterCallerRules ==
    IsOrdered([builtin |-> 1, constructor |-> 2, call |-> 3, split |-> 4])

RECURSIVE ApplyAll(_, _)
ApplyAll(rs, s) == IF rs = <<>> THEN s ELSE ApplyAll(Tail(rs), ApplyRule(rs[1], s))

\* C19: the rules run in the order built-in, splitting (exactly when the
\* option is enabled), constructor-level, call-level, each of them once; the
\* caller's rules work on the output of the splitting rules.
C19_CallerRulesAfterSplit ==
    entry = "_postProcessText" =>
        /\ IsOrdered([builtin |-> 1, split |-> 2, constructor |-> 3, call |-> 4])
        /\ (tpc = "done" /\ text # <<>>)
              => /\ applied = Rep("builtin", Len(BuiltInRules))
                              \o (IF splitPascalCase THEN Rep("split", Len(SplitRules)) ELSE <<>>)
                              \o Rep("constructor", Len(customPostProcessRules))
                              \o Rep("call", Len(additionalRules))
                 /\ cleanedText =
                       Trim(ApplyAll(additionalRules,
                            ApplyAll(customPostProcessRules,
                            ApplyAll(IF splitPascalCase THEN SplitRules ELSE <<>>,
                            ApplyAll(BuiltInRules, text)))))

C19_Witness ==
    /\ entry = "_postProcessText" /\ tpc = "done" /\ splitPascalCase
    /\ text = <<"a", "B", "a">>
    /\ customPostProcessRules = <<Rule("constructor", "regex", {}, <<"B">>, <<"a">>)>>
    /\ additionalRules = <<Rule("call", "string", {}, <<"a">>, <<"B">>)>>
    /\ cleanedText = <<"B", " ", "a", "a">>

\* what a rule gives when every occurrence of its pattern is replaced
AllOccurrences(r, s) ==
    IF ~WellFormed(r) THEN s
    ELSE ReplaceGlobal(IF r.kind = "string" THEN [r EXCEPT !.kind = "regex"] ELSE r, s, 1)

\* C20 as stated: each rule, a regular expression or a plain string,
\* replaces every occurrence of its pattern in the whole current text, and
\* the next rule works on the result.
C20_EveryRuleReplacesAll ==
    [][ (tpc = "pp_rules" /\ ruleIdx' = ruleIdx + 1)
            => cleanedText' = AllOccurrences(rules[ruleIdx + 1], cleanedText) ]_vars

\* ------------------------------------------------------------ C21, C22, C23
\* _postProcessText has returned (to its caller or into a conversion)
Normalized ==
    \/ entry = "_postProcessText" /\ tpc = "done"
    \/ tpc \in {"qc_cleanup", "ha_cleanup"}
\* only the built-in rules are in effect
BuiltInOnly ==
    ~splitPascalCase /\ customPostProcessRules = <<>> /\ additionalRules = <<>>
\* _postProcessText with the built-in rules, as one function of the text
Normalize(t) == IF t = <<>> THEN <<>> ELSE Trim(ApplyAll(BuiltInRules, t))

\* C21: with only the built-in rules in effect, normalizing the result of
\* _postProcessText again gives that result again:
\* normalize(normalize(t)) = normalize(t).
C21_NormalizeIdempotent ==
    (Normalized /\ BuiltInOnly) =>
        /\ cleanedText = Normalize(text)
        /\ Normalize(cleanedText) = cleanedText

C21_Witness ==
    /\ Normalized /\ BuiltInOnly
    /\ text = <<"a", " ", "U+00AD", " ", "b">>
    /\ cleanedText = <<"a", " ", "b">>
    /\ Normalize(cleanedText) = cleanedText

Ligatures == {"U+FB00", "U+FB01", "U+FB02", "U+FB03", "U+FB04"}
CurlyQuotes == {"U+2018", "U+2019", "U+201C", "U+201D"}
Dashes == {"U+2013", "U+2014"}
SoftHyphen == "U+00AD"
AllSpecialsNormalized ==
    <<"f", "f", "f", "i", "f", "l", "f", "f", "i", "f", "f", "l", "'", "'", "\"", "\"",
      "-", "-", " ", "x">>

\* C22: with the built-in rules, the result of _postProcessText has no
\* ligature U+FB00..U+FB04 (each is expanded to ff, fi, fl, ffi, ffl), no
\* curly quote (straight ' and " instead), no en or em dash (- instead), no
\* soft hyphen, no whitespace other than single ASCII spaces between other
\* characters, and no leading or trailing whitespace.
C22_BuiltInRulesLeaveNoSpecials ==
    (Normalized /\ BuiltInOnly) =>
        /\ \A k \in DOMAIN cleanedText :
              /\ cleanedText[k] \notin Ligatures \cup CurlyQuotes \cup Dashes \cup {SoftHyphen}
              /\ cleanedText[k] \in WhiteSpace =>
                    /\ cleanedText[k] = " "
                    /\ 1 < k /\ k < Len(cleanedText)
                    /\ cleanedText[k - 1] \notin WhiteSpace
        /\ text = AllSpecials => cleanedText = AllSpecialsNormalized

C22_Witness ==
    /\ Normalized /\ BuiltInOnly
    /\ text = AllSpecials /\ cleanedText = AllSpecialsNormalized

\* a rule the declared type { find: RegExp | string, replace: string } excludes
Malformed(r) ==
    \/ r.kind \in {"nofind", "badreplace", "coerced", "nullrule"}
    \/ r.kind = "string" /\ r.lit = <<>>
WellFormedRule(r) == ~Malformed(r)

\* C23 as stated: a malformed caller rule (missing or invalid pattern, or a
\* replacement that is not a string) never makes _postProcessText fail; it
\* is skipped, leaving the text as it was, and all the other rules are
\* applied in order.
C23_MalformedRuleSkipped ==
    entry = "_postProcessText" =>
        /\ tpc # "threw"
        /\ (tpc = "done" /\ text # <<>>) =>
              cleanedText = Trim(ApplyAll(SelectSeq(rules, WellFormedRule), text))

\* ------------------------------------------------------------ C26, C27, C28
EndsSentence(t) == t # <<>> /\ t[Len(t)] \in SentencePunctuation
OnlyDigits(t) == t # <<>> /\ \A k \in 1..Len(t) : t[k] \in Digit
NextIsBlankOrEnd(k) == k = Len(inputLines) \/ IsBlankLine(k + 1)

\* C26 as stated: a non-blank line is a heading if and only if (a) it has an
\* uppercase letter, no lowercase letter, a trimmed length strictly between
\* 2 and 80 and is not purely numeric, or (b) its trimmed length is strictly
\* between 0 and 80, it does not end in . , ; : ! ? and the next line is
\* blank or the end of the input.
C26_HeadingIffAllCapsOrShort ==
    ReconDone =>
        \A k \in 1..Len(inputLines) :
            LET t == Trim(inputLines[k])
            IN  ~IsBlankLine(k) =>
                   (IsHeadingBlock(k) <=>
                       \/ /\ HasUpper(t) /\ ~HasLower(t)
                          /\ 2 < Len(t) /\ Len(t) < 80 /\ ~OnlyDigits(t)
                       \/ /\ 0 < Len(t) /\ Len(t) < 80 /\ ~EndsSentence(t)
                          /\ NextIsBlankOrEnd(k))

\* C26: a non-blank line is a heading if and only if (a) it has an
\* uppercase letter, neither a lowercase letter nor an underscore, and a
\* trimmed length strictly between 2 and 80, or (b) its trimmed length is
\* strictly between 1 and 80, it does not end in . , ; : ! ? and the next
\* line is blank or the end of the input.
C26_HeadingIffAllCapsOrShortOverOne ==
    ReconDone =>
        \A k \in 1..Len(inputLines) :
            LET t == Trim(inputLines[k])
            IN  ~IsBlankLine(k) =>
                   (IsHeadingBlock(k) <=>
                       \/ /\ HasUpper(t) /\ ~HasLower(t)
                          /\ \A j \in 1..Len(t) : t[j] # "_"
                          /\ 2 < Len(t) /\ Len(t) < 80
                       \/ /\ 1 < Len(t) /\ Len(t) < 80 /\ ~EndsSentence(t)
                          /\ NextIsBlankOrEnd(k))

C26_Witness ==
    /\ ReconDone /\ inputLines = << <<"a", "b">>, <<>>, <<"a">> >>
    /\ IsHeadingBlock(1) /\ ~IsHeadingBlock(3)

\* the line is a heading by its capitals alone
IsCapsLine(t) ==
    /\ HasUpper(t) /\ ~HasLower(t) /\ \A j \in 1..Len(t) : t[j] # "_"
    /\ 2 < Len(t) /\ Len(t) < 80
\* the line was collected as a line of a potential table
IsCollectedTableLine(k) ==
    /\ ~IsBlankLine(k) /\ ~IsHeadingBlock(k) /\ k \notin skipped
    /\ HasColumnPair(inputLines[k])

\* C27: an all-caps line that holds two tokens separated by two or more
\* spaces is a heading of its own, also right after tabular lines; the
\* tabular lines collected before it are one block of their own (fenced
\* when they are two or more), the block just before the heading.
C27_HeadingBeforeTableCheck ==
    ReconDone =>
        \A k \in 1..Len(inputLines) :
            (IsCapsLine(Trim(inputLines[k])) /\ HasColumnPair(inputLines[k])) =>
                \E b \in 1..Len(blocks) :
                    /\ BlocksOf(k) = {b}
                    /\ blocks[b].kind = "heading" /\ blocks[b].src = <<k>>
                    /\ blocks[b].content = <<Trim(inputLines[k])>>
                    /\ (k > 1 /\ IsCollectedTableLine(k - 1)) =>
                          /\ b > 1 /\ BlocksOf(k - 1) = {b - 1}
                          /\ blocks[b - 1].src[Len(blocks[b - 1].src)] = k - 1
                          /\ (k > 2 /\ IsCollectedTableLine(k - 2)) =>
                                /\ blocks[b - 1].kind = "fenced"
                                /\ BlocksOf(k - 2) = {b - 1}

C27_Witness ==
    /\ ReconDone
    /\ inputLines = << <<"a", " ", " ", "b", ".">>, <<"a", " ", " ", "b", ".">>,
                       <<"A", " ", " ", "B">> >>
    /\ Len(blocks) = 2
    /\ blocks[1].kind = "fenced" /\ blocks[1].src = <<1, 2>>
    /\ blocks[2].kind = "heading" /\ blocks[2].src = <<3>>

InReconstruct == entry \in {"_convertToMarkdownLogic", "quickConvert", "highAccuracyConvert"}
\* line k went to the paragraph collector
IsTextLine(k) ==
    /\ ~IsBlankLine(k) /\ ~IsHeadingBlock(k) /\ k \notin skipped
    /\ ~IsTabularLine(inputLines[k])
IsTableLine(k) ==
    /\ ~IsBlankLine(k) /\ ~IsHeadingBlock(k) /\ k \notin skipped
    /\ IsTabularLine(inputLines[k])

\* C28: after a blank line and at the end of the input both collectors are
\* empty; a flushed paragraph collector of N >= 1 lines is exactly one
\* paragraph, the N trimmed lines joined by single spaces; a flushed table
\* collector of two or more lines is exactly one fenced block of those lines
\* in order, and of one line a paragraph; nothing flushed stays collected.
C28_FlushSemantics ==
    InReconstruct =>
        /\ \A b \in 1..Len(blocks) :
              LET src == blocks[b].src
              IN  /\ Len(src) >= 1
                  /\ \A j \in 1..(Len(src) - 1) : src[j + 1] = src[j] + 1
                  /\ \A j \in 1..Len(src) :
                        /\ BlocksOf(src[j]) = {b}
                        /\ \A m \in 1..Len(paraSrc) : paraSrc[m] # src[j]
                        /\ \A m \in 1..Len(tableSrc) : tableSrc[m] # src[j]
                  /\ blocks[b].kind = "paragraph" =>
                        blocks[b].content =
                           << Join([j \in 1..Len(src) |-> Trim(inputLines[src[j]])], <<" ">>) >>
                  /\ blocks[b].kind = "fenced" =>
                        /\ Len(src) >= 2
                        /\ blocks[b].content = [j \in 1..Len(src) |-> TrimEnd(inputLines[src[j]])]
        /\ (tpc = "md_loop" /\ loopI > 1 /\ IsBlankLine(loopI - 1)) =>
              currentParagraphCollector = <<>> /\ potentialTableBlockLines = <<>>
        /\ tpc = "done" =>
              /\ currentParagraphCollector = <<>> /\ potentialTableBlockLines = <<>>
              /\ \A k \in 1..Len(inputLines) :
                    /\ IsTextLine(k) \/ IsTableLine(k) => Cardinality(BlocksOf(k)) = 1
                    /\ (k < Len(inputLines) /\ IsTextLine(k) /\ IsTextLine(k + 1))
                          => BlocksOf(k) = BlocksOf(k + 1)
                    /\ (k < Len(inputLines) /\ IsTableLine(k) /\ IsTableLine(k + 1))
                          => /\ BlocksOf(k) = BlocksOf(k + 1)
                             /\ \A b \in BlocksOf(k) : blocks[b].kind = "fenced"
                    /\ (IsTableLine(k) /\ (k = 1 \/ ~IsTableLine(k - 1))
                                      /\ (k = Len(inputLines) \/ ~IsTableLine(k + 1)))
                          => \A b \in BlocksOf(k) : blocks[b].kind = "paragraph"

C28_Witness ==
    /\ ReconDone /\ rawText = TwoRowTableInText
    /\ Len(blocks) = 3
    /\ blocks[1].kind = "paragraph" /\ blocks[2].kind = "fenced"
    /\ blocks[2].src = <<2, 3>> /\ blocks[3].kind = "paragraph"
    /\ currentParagraphCollector = <<>> /\ potentialTableBlockLines = <<>>

\* ------------------------------------------------------------------- C24
\* _postProcessText as one function of the text and the three rule options
PostProcessText(t, split, custom, additional) ==
    IF t = <<>> THEN <<>> ELSE Trim(ApplyAll(RuleList(split, custom, additional), t))
NoLocals ==
    [out |-> <<>>, para |-> <<>>, inTable |-> FALSE, table |-> <<>>,
     blocks |-> <<>>, paraSrc |-> <<>>, tableSrc |-> <<>>]
RECURSIVE RunLoop(_, _, _)
RunLoop(st, ls, k) ==
    IF k > Len(ls) THEN st ELSE RunLoop(LoopBody(st, ls, k), ls, NextLine(ls, k))
\* _convertToMarkdownLogic as one function of the text
ConvertToMarkdown(raw) ==
    FinalMarkdown(FlushCurrentParagraph(FlushTableIfOpen(
        RunLoop(NoLocals, SplitLines(raw), 1))).out)
IsConversionEntry == entry \in {"quickConvert", "highAccuracyConvert"}

\* C24: quickConvert and highAccuracyConvert return the same function of the
\* accumulated raw text and of the constructor-level and call-level rules:
\* _postProcessText, the clean-up of the line feeds, _convertToMarkdownLogic.
C24_SameTextPipeline ==
    (IsConversionEntry /\ tpc = "done") =>
        finalMarkdown =
            ConvertToMarkdown(CleanUp(PostProcessText(text, splitPascalCase,
                                  customPostProcessRules, additionalRules)))

C24_Witness ==
    /\ entry = "highAccuracyConvert" /\ tpc = "done"
    /\ text = EndToEndText
    /\ additionalRules = <<Rule("call", "regex", {}, <<"a">>, <<"B">>)>>
    /\ finalMarkdown =
          ConvertToMarkdown(CleanUp(PostProcessText(text, splitPascalCase,
                                customPostProcessRules, additionalRules)))
    /\ Len(blocks) = 1 /\ blocks[1].kind = "heading"

\* ------------------------------------------------------------------- C29
\* what highAccuracyConvert does for page p of n, in order
OcrPageLog(p, n) ==
    <<PageReport("ocr_render_page", p, n), ExtCall("getPage"), ExtCall("render"),
      PageReport("ocr_recognize_page", p, n), ExtCall("recognize")>>
RECURSIVE OcrPagesLog(_, _)
OcrPagesLog(p, n) == IF p > n THEN <<>> ELSE OcrPageLog(p, n) \o OcrPagesLog(p + 1, n)
\* what a successful highAccuracyConvert of n pages does, in order
OcrSuccessLog(n) ==
    <<Stage("start_ocr"), Stage("ocr_worker_init"), ExtCall("createWorker"),
      ExtDone("createWorker"), ExtCall("arrayBuffer"), ExtCall("getDocument")>>
    \o OcrPagesLog(1, n)
    \o <<Stage("ocr_terminate_worker"), ExtCall("terminate"), ExtDone("terminate"),
         Stage("postprocess_ocr"), Stage("markdown_ocr"), Stage("complete_ocr"), Return>>
\* the worker of call c is in use: created, its pages not yet all recognized
UsesWorker(c) ==
    pc[c] \in {"o_buffer", "o_open", "o_page", "o_render", "o_recognize", "o_terminate"}

\* C29: a highAccuracyConvert that succeeds creates exactly one OCR worker,
\* its own, alive from its creation to its termination; the pages are
\* handled one after another, each with one render report, its rendering,
\* one recognize report and its recognition by that worker, before the next
\* page is fetched; the worker is terminated exactly once, after the last
\* recognition and before the post-processing starts.
C29_OneWorkerSequentialPages ==
    \A c \in Calls :
        kind[c] = "ocr" =>
            /\ UsesWorker(c) =>
                  /\ worker[c] # NoHandle /\ worker[c] \in liveOCR
                  /\ Count(c, "done", "createWorker") = 1
                  /\ Count(c, "done", "terminate") = 0
                  /\ \A d \in Calls \ {c} : worker[d] # worker[c]
                  /\ numPages[c] >= 1 => IsPrefix(log[c], OcrSuccessLog(numPages[c]))
            /\ pc[c] = "resolved" =>
                  /\ log[c] = OcrSuccessLog(numPages[c])
                  /\ Count(c, "call", "createWorker") = 1
                  /\ Count(c, "call", "recognize") = numPages[c]
                  /\ Count(c, "call", "terminate") = 1
                  /\ Count(c, "done", "terminate") = 1
                  /\ worker[c] # NoHandle /\ worker[c] \notin liveOCR
                  /\ Precedes(c, "call", "recognize", "call", "terminate")
                  /\ Precedes(c, "done", "terminate", "report", "postprocess_ocr")

C29_Witness ==
    \E c \in Calls :
        /\ kind[c] = "ocr" /\ pc[c] = "resolved" /\ numPages[c] = MaxPages
        /\ log[c] = OcrSuccessLog(MaxPages)
        /\ worker[c] # NoHandle /\ worker[c] \notin liveOCR

\* ------------------------------------------------------------------- C25
IsGiven(tpl) == tpl.kind # "none"

\* C25 as stated: the prompt is the template applied to the input text, the
\* template being the call's llmPromptTemplate if given, otherwise the
\* constructor's llmPromptTemplate if given, otherwise the built-in one.
C25_PromptFromResolvedTemplate ==
    (entry = "llmRewrite" /\ tpc = "done") =>
        prompt = ApplyTemplate(IF IsGiven(callPromptTemplate) THEN callPromptTemplate
                               ELSE IF IsGiven(ctorPromptTemplate) THEN ctorPromptTemplate
                               ELSE DefaultPromptTemplate,
                               text)

\* ------------------------------------------------------------------- C30
InExtract == entry = "_extractTextWithPdfJs"
RECURSIVE ConcatStrs(_)
ConcatStrs(items) == IF items = <<>> THEN <<>> ELSE items[1].str \o ConcatStrs(Tail(items))
\* the page's buffer once item k and what follows it were appended
RECURSIVE BufferUpTo(_, _, _)
BufferUpTo(items, sp, k) ==
    IF k = 0 THEN <<>> ELSE BufferUpTo(items, sp, k - 1) \o items[k].str \o sp[k]
\* both strings non-empty, no space at the junction, baselines closer than
\* half the first fragment's height, horizontal gap greater than -0.5
SpaceIsInferred(a, b) ==
    /\ a.str # <<>> /\ b.str # <<>>
    /\ a.str[Len(a.str)] # " " /\ b.str[1] # " "
    /\ 2 * (IF a.y >= b.y THEN a.y - b.y ELSE b.y - a.y) < a.height
    /\ b.x - (a.x + a.width) > -2      \* -0.5, in quarters of a unit
\* what follows each fragment of the current page
FragmentsJoined ==
    LET items == textContents[pageNo]
    IN  \A k \in 1..Len(seps) :
            IF items[k].hasEOL
            THEN /\ seps[k] \in {<<>>, <<LF>>}
                 /\ EndsWith(BufferUpTo(items, seps, k), LF)
            ELSE seps[k] = IF k < Len(items) /\ SpaceIsInferred(items[k], items[k + 1])
                           THEN <<" ">> ELSE <<>>
\* fullText is the texts of the pages handled so far, in order
PagesAccumulated ==
    /\ fullText = Join(pageTexts, <<>>)
    /\ tpc = "done" => Len(pageTexts) = Len(textContents)

\* C30 as stated: a newline follows a fragment marked end-of-line, and no
\* space; after any other fragment exactly one space is inserted if and only
\* if there is a next fragment, both strings are non-empty, the first does
\* not end and the next does not start with a space, the baselines differ by
\* less than half the fragment's height and the gap is greater than -0.5;
\* the text of each non-empty page ends with a newline in the result.
C30_FragmentsJoinedPagesClosed ==
    InExtract =>
        /\ FragmentsJoined /\ PagesAccumulated
        /\ \A p \in 1..Len(pageTexts) :
              ConcatStrs(textContents[p]) # <<>> => EndsWith(pageTexts[p], LF)

\* C30: the same for the fragments; the text of each page that holds a
\* character other than white space ends with a newline in the result, and
\* a page of white space only, none of its fragments marked end-of-line, is
\* added as it is, without a newline.
C30_FragmentsJoinedInkedPagesClosed ==
    InExtract =>
        /\ FragmentsJoined /\ PagesAccumulated
        /\ \A p \in 1..Len(pageTexts) :
              /\ HasInk(ConcatStrs(textContents[p])) => EndsWith(pageTexts[p], LF)
              /\ (/\ ~HasInk(ConcatStrs(textContents[p]))
                  /\ \A k \in 1..Len(textContents[p]) : ~textContents[p][k].hasEOL)
                    => pageTexts[p] = ConcatStrs(textContents[p])

C30_Witness ==
    /\ InExtract /\ tpc = "done"
    /\ Len(textContents) = 1 /\ Len(textContents[1]) = 2
    /\ textContents[1][2].x = ItemWidth - 1
    /\ seps = << <<" ">>, <<>> >>
    /\ fullText = <<"a", " ", "b", LF>>

\* ------------------------------------------------------------ C31, C32, C33
\* the text a conversion hands to _convertToMarkdownLogic is fixed
HandedOver == IsConversionEntry /\ tpc \in {"md_split", "md_loop", "done"}

\* C31: with only the built-in rules, the text quickConvert and
\* highAccuracyConvert hand to _convertToMarkdownLogic has no line feed and
\* no two spaces in a row; the result has at most one block, a heading or a
\* paragraph, never a fenced block: it is empty, '# ' and the text, or the
\* text.
C31_ConversionGivesOneBlock ==
    (HandedOver /\ BuiltInOnly) =>
        /\ \A k \in 1..Len(rawText) :
              /\ rawText[k] # LF
              /\ (k > 1 /\ rawText[k] = " ") => rawText[k - 1] # " "
        /\ Len(blocks) <= 1
        /\ \A b \in 1..Len(blocks) : blocks[b].kind \in {"heading", "paragraph"}
        /\ tpc = "done" =>
              /\ Len(blocks) = (IF rawText = <<>> THEN 0 ELSE 1)
              /\ finalMarkdown \in {<<>>, rawText, <<"#", " ">> \o rawText}

C31_Witness ==
    /\ HandedOver /\ BuiltInOnly /\ tpc = "done"
    /\ text = EndToEndText
    /\ Len(SplitLines(text)) > 2 /\ Len(inputLines) = 1
    /\ Len(blocks) = 1 /\ blocks[1].kind = "heading"

\* C32: after any number of input lines, at most one of the two collectors
\* holds lines, and inPotentialTableBlock is true exactly when the table
\* collector holds lines.
C32_OneCollectorAtATime ==
    InReconstruct =>
        /\ currentParagraphCollector = <<>> \/ potentialTableBlockLines = <<>>
        /\ inPotentialTableBlock <=> potentialTableBlockLines # <<>>
        /\ Len(paraSrc) = Len(currentParagraphCollector)
        /\ Len(tableSrc) = Len(potentialTableBlockLines)

C32_Witness ==
    /\ InReconstruct /\ tpc = "md_loop" /\ loopI = 3
    /\ inPotentialTableBlock /\ tableSrc = <<2>>
    /\ currentParagraphCollector = <<>>
    /\ Len(blocks) = 1 /\ blocks[1].kind = "paragraph" /\ blocks[1].src = <<1>>

\* the input lines the blocks carry, block after block
RECURSIVE SourcesFrom(_)
SourcesFrom(b) == IF b > Len(blocks) THEN <<>> ELSE blocks[b].src \o SourcesFrom(b + 1)
\* where block b stands in the output lines
InOutput(b) ==
    LET B == blocks[b]
        out == markdownOutputLines
    IN  /\ B.at >= 1
        /\ CASE B.kind = "heading" ->
                   /\ B.at + 1 <= Len(out)
                   /\ out[B.at] = <<"#", " ">> \o B.content[1] /\ out[B.at + 1] = <<>>
             [] B.kind = "paragraph" ->
                   /\ B.at + 1 <= Len(out)
                   /\ out[B.at] = B.content[1] /\ out[B.at + 1] = <<>>
             [] OTHER ->
                   /\ B.at + Len(B.content) + 2 <= Len(out)
                   /\ out[B.at] = Fence
                   /\ \A j \in 1..Len(B.content) : out[B.at + j] = B.content[j]
                   /\ out[B.at + Len(B.content) + 1] = Fence
                   /\ out[B.at + Len(B.content) + 2] = <<>>
        /\ b > 1 => blocks[b - 1].at < B.at

\* C33: at the end of _convertToMarkdownLogic every non-blank input line is
\* carried by exactly one block, a blank line by none; the block holds the
\* line's trimmed text; the blocks, which stand in the output in their own
\* order, carry the lines in the order of the input.
C33_NothingLostNothingMoved ==
    ReconDone =>
        /\ \A k \in 1..Len(inputLines) :
              Cardinality(BlocksOf(k)) = (IF IsBlankLine(k) THEN 0 ELSE 1)
        /\ \A j \in 1..(Len(SourcesFrom(1)) - 1) : SourcesFrom(1)[j] < SourcesFrom(1)[j + 1]
        /\ \A b \in 1..Len(blocks) :
              /\ InOutput(b)
              /\ blocks[b].kind = "heading" =>
                    blocks[b].content = <<Trim(inputLines[blocks[b].src[1]])>>
              /\ blocks[b].kind = "paragraph" =>
                    blocks[b].content =
                       << Join([j \in 1..Len(blocks[b].src) |->
                                   Trim(inputLines[blocks[b].src[j]])], <<" ">>) >>
              /\ blocks[b].kind = "fenced" =>
                    /\ Len(blocks[b].content) = Len(blocks[b].src)
                    /\ \A j \in 1..Len(blocks[b].src) :
                          Trim(blocks[b].content[j]) = Trim(inputLines[blocks[b].src[j]])

C33_Witness ==
    /\ ReconDone /\ rawText = TwoRowTableInText
    /\ SourcesFrom(1) = <<1, 2, 3, 4>>
    /\ Len(markdownOutputLines) = 9

\* ------------------------------------------------------------ C34, C35, C36
\* call c asked, with no call in flight, for a model without model_lib while
\* an engine was Ready for another model, and has failed
FailedForUnresolvable(c) ==
    /\ caps = "engine" /\ ReadyForOtherModelAtStart(c)
    /\ ~ModelLibResolvable(reqModel[c])
    /\ ~overlapped[c] /\ pc[c] = "rejected"
\* call d, which no other call overlaps, has gone through _initializeLLM
Initialized(d) == ~overlapped[d] /\ pc[d] \in {"r_inited", "r_generate", "resolved"}

\* C34: when an engine is Ready for model X and llmRewrite is called for a
\* model Y that has no model_lib, the engine of X is unloaded before the
\* configuration error is reported and raised; the instance is left without
\* engine and not initialized, and the next llmRewrite for X creates an
\* engine again.
C34_FailedSwitchUnloadsEngine ==
    \A c \in Calls :
        FailedForUnresolvable(c) =>
            /\ log[c] = <<Stage("llm_init"), ExtCall("unload"), ExtDone("unload"),
                          ErrorReport("llm_init_error"), Throw("llm_init_failed")>>
            /\ startEngine[c] \notin liveLLM
            /\ LastStarted(c) => (chatModule = NoHandle /\ ~llmInitialized /\ liveLLM = {})
            /\ \A d \in Calls :
                  (/\ d = c + 1 /\ kind[d] = "rewrite"
                   /\ reqModel[d] = engModel[startEngine[c]])
                     => /\ startEngine[d] = NoHandle /\ ~startInit[d]
                        /\ ~Has(d, "report", "llm_ready")
                        /\ Initialized(d) => CreationCalls(d) = 1

C34_Witness ==
    \E c \in Calls :
        /\ FailedForUnresolvable(c)
        /\ c + 1 \in Calls /\ kind[c + 1] = "rewrite"
        /\ reqModel[c + 1] = engModel[startEngine[c]]
        /\ pc[c + 1] = "resolved" /\ CreationCalls(c + 1) = 1

\* the generate call of c failed, no other call being in flight
GenerateFailed(c) ==
    /\ kind[c] = "rewrite" /\ pc[c] = "rejected" /\ ~overlapped[c]
    /\ Has(c, "throw", "llm_generate_failed")

\* C35: a failure of the generate call leaves the engine as it was: the
\* handle is kept, alive and Ready for the call's model; exactly one report,
\* llm_generate_error, carries an error; and the next llmRewrite for the same
\* model finds the engine ready and issues no creation call and no unload.
C35_GenerateFailureKeepsEngine ==
    \A c \in Calls :
        GenerateFailed(c) =>
            /\ Count(c, "report", "llm_generate_error") = 1
            /\ Cardinality(ErrorReports(c)) = 1
            /\ LastStarted(c) =>
                  /\ llmInitialized /\ chatModule # NoHandle /\ chatModule \in liveLLM
                  /\ CurrentModelId = reqModel[c]
                  /\ newEngine[c] # NoHandle => chatModule = newEngine[c]
                  /\ newEngine[c] = NoHandle => chatModule = startEngine[c]
            /\ \A d \in Calls :
                  (d = c + 1 /\ kind[d] = "rewrite" /\ reqModel[d] = reqModel[c])
                     => /\ startInit[d] /\ startEngine[d] # NoHandle
                        /\ Has(d, "report", "llm_ready")
                        /\ CreationCalls(d) = 0 /\ ~Has(d, "call", "unload")

C35_Witness ==
    \E c \in Calls :
        /\ GenerateFailed(c)
        /\ c + 1 \in Calls /\ kind[c + 1] = "rewrite" /\ reqModel[c + 1] = reqModel[c]
        /\ pc[c + 1] = "resolved" /\ CreationCalls(c + 1) = 0

\* C36: the step in which quickConvert or highAccuracyConvert raises
\* 'Invalid input' is the call's first: nothing was reported, no OCR worker
\* created and no engine called before it, the call gets no result, and the
\* instance's fields, the engines and the OCR workers are as they were.
C36_InvalidPayloadRejectsFirst ==
    [][ \A c \in Calls :
           (\E j \in DOMAIN log'[c] : log'[c][j] = Throw("invalid_input"))
              => /\ log'[c] = <<Throw("invalid_input")>>
                 /\ kind'[c] \in {"quick", "ocr"} /\ pc'[c] = "rejected"
                 /\ worker'[c] = NoHandle /\ result'[c] = {}
                 /\ kind[c] = "none" => UNCHANGED <<instVars, extVars>> ]_vars

C36_Witness ==
    \E c \in Calls :
        /\ kind[c] = "ocr" /\ pc[c] = "rejected"
        /\ log[c] = <<Throw("invalid_input")>>
        /\ chatModule # NoHandle /\ llmInitialized /\ liveOCR = {}

\* ------------------------------------------------------------------- C37
\* event e is in the history of the handler's current (or last) run
Handled(e) == \E j \in DOMAIN hlog : hlog[j] = e
\* the handler is not running: never started, or returned
HandlerReturned == hpc = "idle"

C38_SkippedFilesAreDecompressed ==
    /\ \A s \in skips : s[2] = "raw"
    /\ (mpc = "idle" /\ exit = "completed")
          => \A k \in DOMAIN filesToDownload : disk[FinalDestPath(k)] = "raw"

\* ------------------------------------------------------------------- C39
\* the last response downloadFile received
LastReceived == received[Len(received)]

\* C39: downloadFile issues at most MAX_REDIRECTS + 1 requests for one file
\* (it follows at most MAX_REDIRECTS redirects); it rejects for the redirect
\* limit exactly when MAX_REDIRECTS + 1 requests were all answered by
\* redirects, and then issues no further request; a response that is neither
\* a redirect nor a 200 rejects at once, and the step that rejects writes no
\* file.
C39_RedirectsAreBounded ==
    /\ [](/\ requests <= MAX_REDIRECTS + 1
          /\ Len(received) <= requests
          /\ outcome = "redirect_limit"
               <=> /\ Len(received) = MAX_REDIRECTS + 1
                   /\ \A j \in DOMAIN received : IsRedirect(received[j])
          /\ outcome = "redirect_limit" => requests = MAX_REDIRECTS + 1
          /\ outcome = "pending" /\ mpc = "response"
               => /\ requests = Len(received) + 1
                  /\ \A j \in DOMAIN received : IsRedirect(received[j]))
    /\ [][ /\ (outcome = "pending" /\ outcome' = "redirect_limit")
                => UNCHANGED <<disk, requests>> /\ mpc' = "idle" /\ exit' = "error"
           /\ (mpc = "response" /\ Len(received') > Len(received)
                 /\ ~IsRedirect(LastReceived') /\ LastReceived'.statusCode # 200)
                => /\ outcome' = "bad_status" /\ mpc' = "idle" /\ exit' = "error"
                   /\ UNCHANGED <<disk, requests>>
           /\ (outcome = "pending" /\ outcome' = "bad_status")
                => ~IsRedirect(LastReceived') /\ LastReceived'.statusCode # 200 ]_vars

\* a chain of MAX_REDIRECTS + 1 redirects has been rejected
C39_Witness ==
    /\ outcome = "redirect_limit" /\ requests = MAX_REDIRECTS + 1
    /\ Len(received) = MAX_REDIRECTS + 1
    /\ mpc = "idle" /\ exit = "error"
    /\ \A p \in Paths : disk[p] = "absent"

====
